---- MODULE Spec2Model ----
(***************************************************************************)
(* Model of the AI-request pipeline of the TravelAI edge functions:        *)
(* fetchWithRetry (retry with exponential backoff) and the serve handlers  *)
(* that call it (travel-chat, travel-expert-chat, location-recommendations,*)
(* generate-itinerary, comprehensive-itinerary, destination-suggestions).  *)
(***************************************************************************)
EXTENDS Integers, Sequences, FiniteSets, TLC

VARIABLES
    call,     \* the fetchWithRetry call of the handler
    handler,  \* the edge function serving the request
    pc,       \* position of the handler
    apiKey,   \* Deno.env.get('OPENAI_API_KEY') is set
    req,      \* the POST body
    env,      \* the const bindings of the handler's try block
    caught,   \* the error bound by the handler's catch clause
    reply,    \* what the handler reads from the provider's Response
    resp,     \* the Response the handler produces
    clientResult, \* what the client service method resolves with
    table,        \* the rows of destination_suggestions the query reads
    calls,        \* the fetchWithRetry calls in progress side by side
    cancelled,    \* the caller of the edge function has given up on the request
    clientCall,   \* a call of a client service method: method, request, stage
    autocomplete, \* the state of the destination autocomplete component
    chatbot,      \* the state of the travel expert chatbot component
    tripModal     \* the state of the create-trip modal and what it has saved

vars == <<call, handler, pc, apiKey, req, env, caught, reply, resp, clientResult, table,
          calls, cancelled, clientCall, autocomplete, chatbot, tripModal>>

(***************************************************************************)
(* Bounds of the model.                                                    *)
(***************************************************************************)
\* largest maxRetries argument tried when fetchWithRetry is checked alone
MaxMaxRetries == 3

\* longest provider reply (in tokens) the handlers are run on
MaxReplyLen == 2

\* longest provider reply (in tokens) the parse step is checked on
MaxTextLen == 5

\* largest trip duration in a request
MaxDuration == 2

\* largest maxRetries argument of the calls that run side by side
MaxConcurrentRetries == 1

\* largest duration the multi-destination fallback is built for
MaxBuildDuration == 4

\* most messages the user sends to the travel expert chatbot in one run
MaxSends == 3

\* most destination rows of the create-trip modal
MaxDestinations == 3

\* the latest day a trip date can name
MaxTripDay == 4

\* most changes of the autocomplete's input in one run
MaxChanges == 2

\* latest time, in ticks of 100 ms, at which the input changes
MaxNow == 2

(***************************************************************************)
(* Transport: what one `await fetch(url, options)` can do.                 *)
(***************************************************************************)
\* HTTP statuses the provider answers with
Statuses == {200, 404, 429, 500}

\* messages of the network-level errors fetch can throw
NetErrors == {"ECONNRESET", "ETIMEDOUT"}

TransportResults ==
    [kind : {"response"}, status : Statuses, msg : {""}]
        \cup [kind : {"error"}, status : {0}, msg : NetErrors]

\* `let lastError: Error` before its first assignment
Undefined == [msg |-> "undefined", at |-> -1]

\* no Response object
NoResponse == [status |-> 0, at |-> -1]

\* new Error('Max retries exceeded')
MaxRetriesExceeded == [msg |-> "Max retries exceeded", at |-> -1]

\* a plausible slip: every status >= 400 is retried
IsRetryableStatusAny4xx(status) == status >= 400

\* response.status === 429 || response.status >= 500
IsRetryableStatus(status) == status = 429 \/ status >= 500

\* a plausible slip: only server errors count as not ok
IsOkBelow500(status) == status >= 200 /\ status <= 499

\* response.ok
IsOk(status) == status >= 200 /\ status <= 299

\* Math.pow(2, attempt)
RECURSIVE Pow2(_)
Pow2(n) == IF n <= 0 THEN 1 ELSE 2 * Pow2(n - 1)

\* a plausible slip: the exponent is the number of the attempt that follows
BackoffDelayNext(attempt) == Pow2(attempt + 1) * 1000

\* const delay = Math.pow(2, attempt) * 1000
BackoffDelay(attempt) == Pow2(attempt) * 1000

\* a plausible slip: the first error is kept
CatchAssignFirst(lastError, error) ==
    IF lastError = Undefined THEN error ELSE lastError

\* lastError = error as Error
CatchAssign(lastError, error) == error

\* a plausible slip: the loop runs while attempt < maxRetries
MayRetryShort(attempt, maxRetries) == attempt + 1 < maxRetries

\* a plausible slip: the last attempt is followed by a delay as well
MayRetryAlways(attempt, maxRetries) == attempt <= maxRetries

\* attempt < maxRetries
MayRetry(attempt, maxRetries) == attempt < maxRetries

\* throw lastError || new Error('Max retries exceeded')
ThrowValue(lastError) ==
    IF lastError = Undefined THEN MaxRetriesExceeded ELSE lastError

(***************************************************************************)
(* fetchWithRetry: the state of one call.                                  *)
(*   attempt, lastError : the locals of the function                       *)
(*   pc       : "fetch" (awaiting fetch), "delay" (awaiting setTimeout),   *)
(*              "returned", "thrown", "idle" (not called)                  *)
(*   results  : the transport results of the attempts made so far          *)
(*   delays   : the setTimeout delays requested so far                     *)
(*   returned : the Response handed to the caller                          *)
(*   thrown   : the error thrown to the caller                             *)
(***************************************************************************)
NoCall ==
    [maxRetries |-> 0, attempt |-> 0, lastError |-> Undefined, pc |-> "idle",
     results |-> <<>>, delays |-> <<>>, returned |-> NoResponse,
     thrown |-> Undefined]

\* entry of fetchWithRetry: attempt = 0, and the loop condition is tested
CallEnter(maxRetries) ==
    [NoCall EXCEPT !.maxRetries = maxRetries,
                   !.pc = IF 0 <= maxRetries THEN "fetch" ELSE "thrown",
                   !.thrown = IF 0 <= maxRetries THEN Undefined
                              ELSE ThrowValue(Undefined)]

\* one iteration of the for loop, from the fetch to the return, the
\* setTimeout or the throw that ends it
CallIteration(c, result) ==
    LET c1 == [c EXCEPT !.results = Append(c.results, result)] IN
    IF result.kind = "response"
    THEN IF IsRetryableStatus(result.status) /\ MayRetry(c.attempt, c.maxRetries)
         THEN [c1 EXCEPT !.pc = "delay",
                         !.delays = Append(c.delays, BackoffDelay(c.attempt))]
         ELSE [c1 EXCEPT !.pc = "returned",
                         !.returned = [status |-> result.status, at |-> c.attempt]]
    ELSE LET err == CatchAssign(c.lastError, [msg |-> result.msg, at |-> c.attempt])
         IN IF MayRetry(c.attempt, c.maxRetries)
            THEN [c1 EXCEPT !.lastError = err, !.pc = "delay",
                            !.delays = Append(c.delays, BackoffDelay(c.attempt))]
            ELSE \* attempt++ makes the loop condition false: the throw
                 [c1 EXCEPT !.lastError = err, !.attempt = c.attempt + 1,
                            !.pc = "thrown", !.thrown = ThrowValue(err)]

\* the setTimeout promise resolves: continue, attempt++, and the loop
\* condition attempt <= maxRetries is tested again
CallResume(c) ==
    IF c.attempt + 1 <= c.maxRetries
    THEN [c EXCEPT !.attempt = c.attempt + 1, !.pc = "fetch"]
    ELSE [c EXCEPT !.attempt = c.attempt + 1, !.pc = "thrown",
                   !.thrown = ThrowValue(c.lastError)]

(***************************************************************************)
(* Components and service calls that are not in use.                       *)
(***************************************************************************)
\* no client service method has been called
NoClientCall == [method |-> "none", pc |-> "idle"]

\* a component that is not mounted
NotMounted == [mounted |-> FALSE]

(***************************************************************************)
(* Several calls of fetchWithRetry in progress at once: each invocation    *)
(* has its own attempt and lastError, the module holds no binding the      *)
(* function writes.                                                        *)
(***************************************************************************)
CallIds == {1, 2}

NoCalls == [i \in CallIds |-> NoCall]

\* a plausible slip: lastError is declared at module level, so that an
\* assignment by one call is seen by the others
ConcurrentIterationSharedLastError(cs, i, result) ==
    LET it == CallIteration(cs[i], result) IN
    [j \in DOMAIN cs |->
        IF j = i THEN it ELSE [cs[j] EXCEPT !.lastError = it.lastError]]

\* one iteration of the loop of call i; the other calls are untouched
ConcurrentIteration(cs, i, result) ==
    [cs EXCEPT ![i] = CallIteration(cs[i], result)]

(***************************************************************************)
(* The edge functions and their requests.                                  *)
(***************************************************************************)
ChatHandlers == {"travel-chat", "travel-expert-chat"}

\* handlers that scan the provider reply for a JSON object
ParseHandlers ==
    {"location-recommendations", "generate-itinerary", "comprehensive-itinerary"}

\* handlers that call the provider through fetchWithRetry
ProviderHandlers == ChatHandlers \cup ParseHandlers

Handlers == ProviderHandlers \cup {"destination-suggestions"}

\* the third argument of every fetchWithRetry call of the handlers
HandlerMaxRetries == 3

Destinations == {"Paris", "Rome"}

DestinationLists == {<<>>, <<"Paris">>, <<"Paris", "Rome">>}

Budgets == {"budget", "mid-range", "luxury"}

\* a start date, as a day number (the date-only ISO string of that day)
StartDates == {0}

\* a query, as the sequence of its characters
Queries ==
    {<<>>, <<" ">>, <<"p", "a", "r", "i", "s">>, <<"F", "O", "O", "D">>, <<"i", "t">>, <<"z">>}

\* the limit member is absent from the body
NoLimit == -1

Limits == {NoLimit, 1, 2, 10}

NoRequest ==
    [valid |-> FALSE, destination |-> "", destinations |-> <<>>, startDate |-> 0,
     duration |-> 0, budget |-> "", query |-> <<>>, limit |-> NoLimit]

\* the POST bodies a handler is run on; an invalid one makes req.json() throw
Requests(h) ==
    {NoRequest} \cup
    CASE h \in ChatHandlers -> {[NoRequest EXCEPT !.valid = TRUE]}
      [] h = "location-recommendations" ->
            {[NoRequest EXCEPT !.valid = TRUE, !.destination = d] :
                d \in Destinations}
      [] h = "generate-itinerary" ->
            {[NoRequest EXCEPT !.valid = TRUE, !.destinations = ds,
                               !.startDate = sd, !.duration = n] :
                ds \in DestinationLists, sd \in StartDates, n \in 0..MaxDuration}
      [] h = "comprehensive-itinerary" ->
            {[NoRequest EXCEPT !.valid = TRUE, !.destination = d,
                               !.startDate = sd, !.duration = n, !.budget = b] :
                d \in {"Paris"}, sd \in StartDates, n \in 0..MaxDuration,
                b \in Budgets}
      [] OTHER ->
            {[NoRequest EXCEPT !.valid = TRUE, !.query = q, !.limit = l] :
                q \in Queries, l \in Limits}

\* no const of the try block is in scope
NoBindings == [bound |-> {}]

\* the names the try block binds with const from the request body
TryBindings(h) ==
    [bound |->
        CASE h \in ChatHandlers -> {"messages"}
          [] h = "location-recommendations" -> {"destination", "previousDestination"}
          [] h = "generate-itinerary" ->
                {"destinations", "duration", "startDate", "endDate", "budget",
                 "travelStyle", "interests"}
          [] h = "comprehensive-itinerary" -> {"request"}
          [] OTHER -> {"query", "limit"}]

\* the names the catch block of the handler reads
CatchReads(h) ==
    CASE h = "location-recommendations" -> {"destination"}
      [] h = "generate-itinerary" -> {"destinations", "startDate", "duration"}
      [] OTHER -> {}

(***************************************************************************)
(* Provider replies. The message content is a sequence of tokens:          *)
(*   "{" "}"  braces                                                       *)
(*   "d"      a member with a required key and its value ("days": [..])    *)
(*   "k"      a key and its colon, to be followed by an object value       *)
(*   "w"      a word of prose                                              *)
(* Commas between members are part of the member tokens.                   *)
(***************************************************************************)
Tokens == {"{", "}", "d", "k", "w"}

Texts(n) == UNION {[1..len -> Tokens] : len \in 0..n}

NoReply == [kind |-> "none", content |-> <<>>]

\* what the handler can read from a delivered Response with an ok status:
\* a body that is not JSON, JSON without choices[0].message, a null content,
\* or a content string
OkReplies(n) ==
    {[kind |-> k, content |-> <<>>] : k \in {"NotJson", "NoChoices", "NullContent"}}
        \cup {[kind |-> "Text", content |-> t] : t \in Texts(n)}

\* await response.text() of a Response that is not ok
ErrorTextReply == [kind |-> "ErrorText", content |-> <<>>]

\* an object without members
EmptyObject == [d |-> FALSE, k |-> <<>>]

ParseFailure == [ok |-> FALSE, val |-> EmptyObject, next |-> 0]

\* the members of an object from position i up to its closing brace; a
\* repeated key keeps its last value
RECURSIVE ParseMembers(_, _, _)
ParseMembers(s, i, acc) ==
    IF i > Len(s) THEN ParseFailure
    ELSE IF s[i] = "}" THEN [ok |-> TRUE, val |-> acc, next |-> i + 1]
    ELSE IF s[i] = "d" THEN ParseMembers(s, i + 1, [acc EXCEPT !.d = TRUE])
    ELSE IF s[i] = "k" /\ i + 1 <= Len(s) /\ s[i + 1] = "{"
    THEN LET inner == ParseMembers(s, i + 2, EmptyObject) IN
         IF inner.ok
         THEN ParseMembers(s, inner.next, [acc EXCEPT !.k = <<inner.val>>])
         ELSE ParseFailure
    ELSE ParseFailure

\* JSON.parse of a text that starts with "{": the decoded object, or a
\* SyntaxError (ok = FALSE)
JSONParse(s) ==
    IF Len(s) = 0 \/ s[1] # "{" THEN ParseFailure
    ELSE LET r == ParseMembers(s, 2, EmptyObject) IN
         IF r.ok /\ r.next = Len(s) + 1 THEN r ELSE ParseFailure

Positions(s, tok) == {i \in 1..Len(s) : s[i] = tok}

Min(S) == CHOOSE x \in S : \A y \in S : x <= y

Max(S) == CHOOSE x \in S : \A y \in S : x >= y

\* content.match(/\{[\s\S]*\}/): from the first "{" to the last "}" of the
\* text; null (found = FALSE) when no "}" follows the first "{"
JsonMatch(s) ==
    IF Positions(s, "{") = {} \/ Positions(s, "}") = {}
       \/ Max(Positions(s, "}")) < Min(Positions(s, "{"))
    THEN [found |-> FALSE, text |-> <<>>]
    ELSE [found |-> TRUE,
          text |-> SubSeq(s, Min(Positions(s, "{")), Max(Positions(s, "}")))]

(***************************************************************************)
(* Fallback builders. A template string `text ${x}` is the tuple of its    *)
(* parts; a date is a day number.                                          *)
(***************************************************************************)
\* location-recommendations: createFallbackRecommendations(destination)
createFallbackRecommendations(destination) ==
    [restaurants |->
        <<[name |-> "Local Favorite Restaurant", cuisine |-> "Local",
           description |-> <<"Popular local restaurant in ", destination>>]>>,
     sightseeing |->
        <<[name |-> <<destination, " Main Attraction">>,
           description |-> <<"Must-visit landmark in ", destination>>]>>,
     transportation |->
        [local |-> [modes |-> <<"Walking", "Public Transport", "Taxi">>]],
     nightlife |->
        <<[name |-> "Local Bar District",
           description |-> <<"Popular nightlife area in ", destination>>]>>,
     shopping |->
        <<[name |-> "Local Market",
           description |-> <<"Traditional shopping area in ", destination>>]>>,
     tips |-> <<"Learn basic local phrases", "Carry local currency",
                "Respect local customs">>]

\* Math.ceil(a / b) for b > 0
CeilDiv(a, b) == (a + b - 1) \div b

\* Math.floor(i / Math.ceil(duration / destinations.length)); with an empty
\* list the divisor is Infinity and the index 0
DestinationIndex(i, duration, n) ==
    IF n = 0 THEN 0 ELSE i \div CeilDiv(duration, n)

\* destinations[destinationIndex] || destinations[0]
DestinationAt(destinations, idx) ==
    IF idx + 1 <= Len(destinations) THEN destinations[idx + 1]
    ELSE IF Len(destinations) >= 1 THEN destinations[1]
    ELSE "undefined"

\* generate-itinerary: createFallbackItinerary(content, destinations,
\* startDate, duration); content is not used
createFallbackItinerary(destinations, startDate, duration) ==
    [days |->
        [n \in 1..duration |->
            LET i == n - 1
                destination ==
                    DestinationAt(destinations,
                        DestinationIndex(i, duration, Len(destinations)))
            IN [day |-> i + 1,
                date |-> startDate + i,
                destination |-> destination,
                activities |->
                    <<[time |-> "09:00", title |-> <<"Explore ", destination>>,
                       priceEstimate |-> 30],
                      [time |-> "12:00", title |-> <<"Local Lunch", "">>,
                       priceEstimate |-> 25],
                      [time |-> "14:00", title |-> <<"Cultural Experience", "">>,
                       priceEstimate |-> 20],
                      [time |-> "19:00", title |-> <<"Dinner", "">>,
                       priceEstimate |-> 40]>>]],
     totalEstimatedCost |-> duration * 115,
     travelTips |-> <<"Pack light and bring comfortable walking shoes",
                      "Keep copies of important documents",
                      "Learn basic phrases in the local language",
                      "Research local customs and etiquette">>,
     packingRecommendations |-> <<"Comfortable walking shoes",
                                  "Weather-appropriate clothing",
                                  "Portable charger", "Travel adapter",
                                  "First aid kit">>]

\* a plausible slip: the days are numbered with the array index
ComprehensiveDailyItineraryZeroBased(request) ==
    [n \in 1..request.duration |->
        LET i == n - 1 IN
        [day |-> i,
         date |-> request.startDate + i,
         theme |-> IF i = 0 THEN [label |-> "Arrival & Orientation", day |-> 0]
                   ELSE [label |-> "Day Exploration", day |-> i + 1],
         morning |-> [time |-> "09:00",
                      activity |-> <<"Explore ", request.destination,
                                     " highlights">>,
                      cost |-> "$15"],
         lunch |-> [restaurant |-> "Midday Cafe", cost |-> "$18"],
         afternoon |-> [time |-> "14:00", activity |-> "Cultural experience",
                        cost |-> "$20"],
         dinner |-> [restaurant |-> "Evening Bistro", cost |-> "$35"],
         evening |-> [activity |-> "Evening walk", cost |-> "Free"]]]

\* comprehensive-itinerary: Array.from({ length: request.duration }, ...)
ComprehensiveDailyItinerary(request) ==
    [n \in 1..request.duration |->
        LET i == n - 1 IN
        [day |-> i + 1,
         date |-> request.startDate + i,
         theme |-> IF i = 0 THEN [label |-> "Arrival & Orientation", day |-> 0]
                   ELSE [label |-> "Day Exploration", day |-> i + 1],
         morning |-> [time |-> "09:00",
                      activity |-> <<"Explore ", request.destination,
                                     " highlights">>,
                      cost |-> "$15"],
         lunch |-> [restaurant |-> "Midday Cafe", cost |-> "$18"],
         afternoon |-> [time |-> "14:00", activity |-> "Cultural experience",
                        cost |-> "$20"],
         dinner |-> [restaurant |-> "Evening Bistro", cost |-> "$35"],
         evening |-> [activity |-> "Evening walk", cost |-> "Free"]]]

\* comprehensive-itinerary: createFallbackItinerary(request)
createComprehensiveFallbackItinerary(request) ==
    [destination |-> request.destination,
     overview |-> <<request.destination,
                    " offers rich cultural experiences and attractions.">>,
     bestTimeToVisit |-> "Year-round",
     safetyRating |-> 8,
     safetyTips |-> <<"Stay aware of surroundings", "Use official transportation">>,
     culturalTips |-> <<"Learn basic local phrases", "Respect local customs">>,
     hotels |->
        <<[name |-> "Central Plaza Hotel", category |-> request.budget,
           priceRange |->
               IF request.budget = "budget" THEN "$60-90"
               ELSE IF request.budget = "mid-range" THEN "$120-180"
               ELSE "$250-400",
           address |-> <<"Main Square, ", request.destination>>]>>,
     restaurants |-> <<[name |-> "Local Heritage Restaurant"]>>,
     attractions |-> <<[name |-> <<request.destination, " Cultural Center">>]>>,
     transportation |->
        [airport |-> <<[mode |-> "Airport Shuttle"]>>,
         local |-> <<[mode |-> "City Bus"]>>,
         intercity |-> <<[mode |-> "Regional Train"]>>],
     dailyItinerary |-> ComprehensiveDailyItinerary(request),
     costBreakdown |->
        [accommodation |-> [min |-> 60 * request.duration,
                            max |-> 400 * request.duration],
         food |-> [min |-> 50 * request.duration, max |-> 120 * request.duration],
         activities |-> [min |-> 30 * request.duration,
                         max |-> 80 * request.duration],
         transport |-> [min |-> 25 * request.duration,
                        max |-> 70 * request.duration],
         total |-> [min |-> 165 * request.duration,
                    max |-> 670 * request.duration]],
     packingList |-> <<"Comfortable walking shoes", "Weather-appropriate clothing",
                       "Portable charger", "Travel documents", "Camera",
                       "Sunscreen">>,
     emergencyInfo |->
        [emergencyNumber |-> "Emergency services",
         hospitals |-> <<<<request.destination, " General Hospital">>>>]]

\* the fallback payload a handler builds from the values of its request
FallbackFor(h, r) ==
    CASE h = "location-recommendations" ->
            createFallbackRecommendations(r.destination)
      [] h = "generate-itinerary" ->
            createFallbackItinerary(r.destinations, r.startDate, r.duration)
      [] OTHER -> createComprehensiveFallbackItinerary(r)

(***************************************************************************)
(* Responses of the handlers.                                              *)
(***************************************************************************)
\* the canned unavailability message of a chat handler
CannedMessage(h) ==
    IF h = "travel-chat"
    THEN "I'm currently unable to access my AI capabilities due to service limitations. However, I can still help you with general travel advice! Feel free to ask about popular destinations, travel tips, or planning strategies."
    ELSE "I'm your travel expert assistant, but I'm currently unable to access my full AI capabilities due to service limitations. I can still provide general travel guidance! What destination or travel question can I help you with?"

NoResp == [status |-> 0, json |-> FALSE, body |-> [kind |-> "none"]]

\* new Response(JSON.stringify(body), { status, headers: { 'Content-Type':
\* 'application/json' } }); the status is 200 when none is given
JsonResponse(status, body) == [status |-> status, json |-> TRUE, body |-> body]

\* JSON.stringify({ response: <canned message> })
CannedBody(h) ==
    [kind |-> "chat", canned |-> CannedMessage(h), isNull |-> FALSE,
     content |-> <<>>]

\* JSON.stringify({ response: assistantResponse })
AssistantBody(rep) ==
    [kind |-> "chat", canned |-> "", isNull |-> rep.kind = "NullContent",
     content |-> rep.content]

FallbackBody(h, r) == [kind |-> "fallback", value |-> FallbackFor(h, r)]

ParsedBody(obj) == [kind |-> "parsed", value |-> obj]

\* JSON.stringify({ error: error.message })
ErrorBody(error) == [kind |-> "error", message |-> error.msg]

\* what the std server answers when the handler's promise rejects
UncaughtResponse(name) ==
    [status |-> 500, json |-> FALSE, body |-> [kind |-> "uncaught", error |-> name]]

Threw(msg) == [threw |-> TRUE, error |-> [msg |-> msg, at |-> -1], resp |-> NoResp]

Responded(r) == [threw |-> FALSE, error |-> Undefined, resp |-> r]

\* a plausible slip: a reply without a brace substring is reported as an
\* error instead of being caught by the inner try
ParseStepNoMatchError(h, r, rep) ==
    IF rep.kind = "NullContent"
    THEN FallbackBody(h, r)
    ELSE LET jsonMatch == JsonMatch(rep.content) IN
         IF jsonMatch.found
         THEN LET parsed == JSONParse(jsonMatch.text) IN
              IF parsed.ok THEN ParsedBody(parsed.val) ELSE FallbackBody(h, r)
         ELSE ErrorBody([msg |-> "No JSON found in response", at |-> -1])

\* the parse step of the itinerary and recommendation handlers: the inner
\* try/catch around content.match and JSON.parse
ParseStep(h, r, rep) ==
    IF rep.kind = "NullContent"
    THEN FallbackBody(h, r)          \* content.match throws a TypeError
    ELSE LET jsonMatch == JsonMatch(rep.content) IN
         IF jsonMatch.found
         THEN LET parsed == JSONParse(jsonMatch.text) IN
              IF parsed.ok THEN ParsedBody(parsed.val) ELSE FallbackBody(h, r)
         ELSE FallbackBody(h, r)     \* 'No JSON found in response'

\* the handler from the Response returned by fetchWithRetry to its return
\* statement or to the throw that leaves the try block
AfterFetch(h, r, status, rep) ==
    IF ~IsOk(status)
    THEN CASE h \in ChatHandlers -> Responded(JsonResponse(200, CannedBody(h)))
           [] h = "comprehensive-itinerary" -> Threw("OpenAI API error")
           [] OTHER -> Responded(JsonResponse(200, FallbackBody(h, r)))
    ELSE IF rep.kind = "NotJson" THEN Threw("SyntaxError")
    ELSE IF rep.kind = "NoChoices" THEN Threw("TypeError")
    ELSE IF h \in ChatHandlers
    THEN Responded(JsonResponse(200, AssistantBody(rep)))
    ELSE Responded(JsonResponse(200, ParseStep(h, r, rep)))

(***************************************************************************)
(* destination-suggestions: strings are sequences of characters, so that   *)
(* trim, toLowerCase and includes are computed and not assumed.            *)
(***************************************************************************)
UpperCase ==
    <<"A", "B", "C", "D", "E", "F", "G", "H", "I", "J", "K", "L", "M",
      "N", "O", "P", "Q", "R", "S", "T", "U", "V", "W", "X", "Y", "Z">>

LowerCase ==
    <<"a", "b", "c", "d", "e", "f", "g", "h", "i", "j", "k", "l", "m",
      "n", "o", "p", "q", "r", "s", "t", "u", "v", "w", "x", "y", "z">>

\* String.prototype.toLowerCase
toLowerCase(str) ==
    [i \in 1..Len(str) |->
        IF \E j \in 1..Len(UpperCase) : UpperCase[j] = str[i]
        THEN LowerCase[CHOOSE j \in 1..Len(UpperCase) : UpperCase[j] = str[i]]
        ELSE str[i]]

\* String.prototype.includes
includes(str, search) ==
    \E i \in 1..(Len(str) - Len(search) + 1) :
        SubSeq(str, i, i + Len(search) - 1) = search

RECURSIVE trimStart(_)
trimStart(str) ==
    IF str # <<>> /\ Head(str) = " " THEN trimStart(Tail(str)) ELSE str

RECURSIVE trimEnd(_)
trimEnd(str) ==
    IF str # <<>> /\ str[Len(str)] = " "
    THEN trimEnd(SubSeq(str, 1, Len(str) - 1))
    ELSE str

\* String.prototype.trim
trim(str) == trimEnd(trimStart(str))

\* query && query.trim().length > 0
NonBlank(query) == query # <<>> /\ Len(trim(query)) > 0

\* const { query, limit = 10 } = await req.json()
LimitOrDefault(limit) == IF limit = NoLimit THEN 10 ELSE limit

\* const fallbackDestinations = [...]
fallbackDestinations ==
    <<[name |-> <<"P", "a", "r", "i", "s">>,
       country |-> <<"F", "r", "a", "n", "c", "e">>,
       description |->
          <<"C", "i", "t", "y", " ", "o", "f", " ", "L", "i", "g", "h", "t", " ", "a", "n", "d", " ", "L", "o", "v", "e">>,
       popularFor |->
          <<<<"A", "r", "t">>,
            <<"C", "u", "l", "t", "u", "r", "e">>,
            <<"R", "o", "m", "a", "n", "c", "e">>,
            <<"F", "o", "o", "d">>>>,
       popularityScore |-> 100],
      [name |-> <<"T", "o", "k", "y", "o">>,
       country |-> <<"J", "a", "p", "a", "n">>,
       description |->
          <<"M", "o", "d", "e", "r", "n", " ", "M", "e", "t", "r", "o", "p", "o", "l", "i", "s">>,
       popularFor |->
          <<<<"T", "e", "c", "h", "n", "o", "l", "o", "g", "y">>,
            <<"F", "o", "o", "d">>,
            <<"C", "u", "l", "t", "u", "r", "e">>,
            <<"S", "h", "o", "p", "p", "i", "n", "g">>>>,
       popularityScore |-> 95],
      [name |-> <<"N", "e", "w", " ", "Y", "o", "r", "k">>,
       country |-> <<"U", "n", "i", "t", "e", "d", " ", "S", "t", "a", "t", "e", "s">>,
       description |->
          <<"T", "h", "e", " ", "B", "i", "g", " ", "A", "p", "p", "l", "e">>,
       popularFor |->
          <<<<"C", "u", "l", "t", "u", "r", "e">>,
            <<"B", "r", "o", "a", "d", "w", "a", "y">>,
            <<"F", "o", "o", "d">>,
            <<"M", "u", "s", "e", "u", "m", "s">>>>,
       popularityScore |-> 90],
      [name |-> <<"L", "o", "n", "d", "o", "n">>,
       country |-> <<"U", "n", "i", "t", "e", "d", " ", "K", "i", "n", "g", "d", "o", "m">>,
       description |->
          <<"H", "i", "s", "t", "o", "r", "i", "c", " ", "C", "a", "p", "i", "t", "a", "l">>,
       popularFor |->
          <<<<"H", "i", "s", "t", "o", "r", "y">>,
            <<"M", "u", "s", "e", "u", "m", "s">>,
            <<"T", "h", "e", "a", "t", "e", "r">>,
            <<"C", "u", "l", "t", "u", "r", "e">>>>,
       popularityScore |-> 85],
      [name |-> <<"R", "o", "m", "e">>,
       country |-> <<"I", "t", "a", "l", "y">>,
       description |->
          <<"E", "t", "e", "r", "n", "a", "l", " ", "C", "i", "t", "y">>,
       popularFor |->
          <<<<"H", "i", "s", "t", "o", "r", "y">>,
            <<"A", "r", "c", "h", "i", "t", "e", "c", "t", "u", "r", "e">>,
            <<"F", "o", "o", "d">>,
            <<"A", "r", "t">>>>,
       popularityScore |-> 80]>>

\* the sixth row the migration inserts into destination_suggestions
BarcelonaRow ==
    [name |-> <<"B", "a", "r", "c", "e", "l", "o", "n", "a">>,
     country |-> <<"S", "p", "a", "i", "n">>,
     description |->
        <<"G", "a", "u", "d", "i", "'", "s", " ", "M", "a", "s", "t", "e", "r", "p", "i", "e", "c", "e">>,
     popularFor |->
        <<<<"A", "r", "c", "h", "i", "t", "e", "c", "t", "u", "r", "e">>,
          <<"B", "e", "a", "c", "h", "e", "s">>,
          <<"N", "i", "g", "h", "t", "l", "i", "f", "e">>,
          <<"F", "o", "o", "d">>>>,
     popularityScore |-> 75]

\* rows of destination_suggestions: the first six the migration inserts
SeedRows == {fallbackDestinations[i] : i \in DOMAIN fallbackDestinations}
                \cup {BarcelonaRow}

\* the table at the time of the query: any part of the seed rows
Tables == SUBSET SeedRows

\* getFallbackSuggestions(query)
getFallbackSuggestions(query) ==
    IF query = <<>> \/ Len(trim(query)) = 0
    THEN fallbackDestinations
    ELSE LET q == toLowerCase(query)
             keep(dest) ==
                 \/ includes(toLowerCase(dest.name), q)
                 \/ includes(toLowerCase(dest.country), q)
                 \/ \E t \in DOMAIN dest.popularFor :
                        includes(toLowerCase(dest.popularFor[t]), q)
         IN SelectSeq(fallbackDestinations, keep)

\* name.ilike.%q%,country.ilike.%q%,description.ilike.%q%
ilikeAny(row, query) ==
    LET q == toLowerCase(query) IN
    \/ includes(toLowerCase(row.name), q)
    \/ includes(toLowerCase(row.country), q)
    \/ includes(toLowerCase(row.description), q)

\* .order('popularity_score', { ascending: false }); the scores of the
\* seed rows are distinct
RECURSIVE orderDescending(_)
orderDescending(rows) ==
    IF rows = {} THEN <<>>
    ELSE LET top == CHOOSE r \in rows :
                        \A o \in rows : o.popularityScore <= r.popularityScore
         IN <<top>> \o orderDescending(rows \ {top})

\* .limit(limit)
limitRows(seq, limit) == SubSeq(seq, 1, Min({Len(seq), limit}))

\* what the select of the non-empty branch answers with
searchRows(rows, query, limit) ==
    limitRows(orderDescending({r \in rows : ilikeAny(r, query)}), limit)

\* what the select of the empty branch answers with
popularRows(rows, limit) == limitRows(orderDescending(rows), limit)

\* JSON.stringify({ suggestions }) and the catch block's body
SuggestionsBody(source, query, list, error) ==
    [kind |-> "suggestions", source |-> source, query |-> query,
     suggestions |-> list, error |-> error]

\* the status the catch block of a handler answers with
CatchStatus(h) == IF h = "comprehensive-itinerary" THEN 500 ELSE 200

\* the catch block of a handler, run with the bindings e in scope
CatchBlock(h, e, r, error) ==
    IF ~(CatchReads(h) \subseteq e.bound)
    THEN Threw("ReferenceError")
    ELSE CASE h \in ChatHandlers ->
                Responded(JsonResponse(CatchStatus(h), CannedBody(h)))
           [] h = "comprehensive-itinerary" ->
                Responded(JsonResponse(CatchStatus(h), ErrorBody(error)))
           [] h = "destination-suggestions" ->
                Responded(JsonResponse(CatchStatus(h),
                    SuggestionsBody("static", <<>>, getFallbackSuggestions(<<>>),
                                    TRUE)))
           [] OTHER ->
                Responded(JsonResponse(CatchStatus(h), FallbackBody(h, r)))

(***************************************************************************)
(* The client services that call the edge functions.                       *)
(***************************************************************************)
\* the service method has not resolved
NoResult == [kind |-> "none"]

\* ComprehensiveAIService.createFallbackItinerary(request)
ComprehensiveAIService_createFallbackItinerary(request) ==
    [destination |-> request.destination,
     overview |-> <<request.destination,
                    " is a wonderful destination with rich culture and attractions.">>,
     bestTimeToVisit |-> "Year-round",
     safetyRating |-> 8,
     safetyTips |-> <<"Keep your belongings secure",
                      "Stay aware of your surroundings",
                      "Use official transportation">>,
     culturalTips |-> <<"Learn basic local phrases", "Respect local customs",
                        "Dress appropriately for religious sites">>,
     hotels |->
        <<[name |-> "Central Hotel", category |-> request.budget,
           priceRange |->
               IF request.budget = "budget" THEN "$50-100"
               ELSE IF request.budget = "mid-range" THEN "$100-200"
               ELSE "$200+",
           address |-> <<"Main Street, ", request.destination>>]>>,
     restaurants |-> <<[name |-> "Local Favorite"]>>,
     attractions |-> <<[name |-> <<request.destination, " Main Attraction">>]>>,
     transportation |->
        [airport |-> <<[mode |-> "Taxi"]>>,
         local |-> <<[mode |-> "Public Transport"]>>,
         intercity |-> <<[mode |-> "Train"]>>],
     dailyItinerary |->
        [n \in 1..request.duration |->
            LET i == n - 1 IN
            [day |-> i + 1,
             date |-> request.startDate + i,
             theme |-> IF i = 0 THEN [label |-> "Arrival & Exploration", day |-> 0]
                       ELSE [label |-> "Day Adventures", day |-> i + 1],
             morning |-> [time |-> "09:00",
                          activity |-> <<"Explore ", request.destination, "">>,
                          cost |-> "$10-20"],
             lunch |-> [restaurant |-> "Local Bistro", cost |-> "$15-25"],
             afternoon |-> [time |-> "14:00", activity |-> "Cultural Experience",
                            cost |-> "$15-30"],
             dinner |-> [restaurant |-> "Evening Restaurant", cost |-> "$25-40"],
             evening |-> [activity |-> "Evening Stroll", cost |-> "Free"]]],
     costBreakdown |->
        [accommodation |-> [min |-> 50 * request.duration,
                            max |-> 200 * request.duration],
         food |-> [min |-> 40 * request.duration, max |-> 100 * request.duration],
         activities |-> [min |-> 30 * request.duration,
                         max |-> 80 * request.duration],
         transport |-> [min |-> 20 * request.duration,
                        max |-> 60 * request.duration],
         total |-> [min |-> 140 * request.duration,
                    max |-> 440 * request.duration]],
     packingList |-> <<"Comfortable walking shoes", "Weather-appropriate clothing",
                       "Portable charger", "Travel adapter", "First aid kit",
                       "Sunscreen", "Camera">>,
     emergencyInfo |->
        [emergencyNumber |-> "911",
         hospitals |-> <<<<request.destination, " General Hospital">>>>]]

\* ComprehensiveAIService.generateDetailedItinerary(request), from the
\* Response of the edge function to the value the method resolves with: the
\* body of an ok Response, the client's own fallback otherwise
generateDetailedItinerary(request, response) ==
    IF IsOk(response.status) /\ response.json
    THEN [kind |-> "plan", source |-> response.body.kind,
          value |-> response.body.value]
    ELSE [kind |-> "plan", source |-> "client-fallback",
          value |-> ComprehensiveAIService_createFallbackItinerary(request)]

(***************************************************************************)
(* The client service methods, each on its own against every outcome of    *)
(* its HTTP call.                                                          *)
(***************************************************************************)
ClientMethods ==
    {"OpenAIService.getLocationRecommendations",
     "OpenAIService.chatWithAssistant",
     "OpenAIService.generateItinerary",
     "ComprehensiveAIService.generateDetailedItinerary",
     "ComprehensiveAIService.getDestinationSuggestions",
     "ComprehensiveAIService.chatWithTravelExpert"}

\* methods that read the body of a Response that is not ok
ErrorBodyMethods ==
    {"OpenAIService.generateItinerary",
     "ComprehensiveAIService.generateDetailedItinerary"}

\* what the method's fetch can do: reject, or resolve with a Response of
\* some status whose body is JSON or not, and if JSON an object or null
HttpOutcomes ==
    {[net |-> TRUE, status |-> 0, json |-> FALSE, null |-> FALSE]}
        \cup {o \in [net : {FALSE}, status : {200, 404, 500},
                     json : BOOLEAN, null : BOOLEAN] : o.null => o.json}

\* the arguments a method is called with
ClientRequests(method) ==
    CASE method = "OpenAIService.getLocationRecommendations" ->
            {r \in Requests("location-recommendations") : r.valid}
      [] method = "OpenAIService.generateItinerary" ->
            {r \in Requests("generate-itinerary") : r.valid}
      [] method = "ComprehensiveAIService.generateDetailedItinerary" ->
            {r \in Requests("comprehensive-itinerary") : r.valid}
      [] method = "ComprehensiveAIService.getDestinationSuggestions" ->
            {[NoRequest EXCEPT !.valid = TRUE, !.query = q] : q \in Queries}
      [] OTHER -> {[NoRequest EXCEPT !.valid = TRUE]}

\* OpenAIService.createFallbackRecommendations(destination)
OpenAIService_createFallbackRecommendations(destination) ==
    [restaurants |->
        <<[name |-> "Local Favorite Restaurant", cuisine |-> "Local",
           description |-> <<"Popular local restaurant in ", destination>>]>>,
     sightseeing |->
        <<[name |-> <<destination, " Main Attraction">>,
           description |-> <<"Must-visit landmark in ", destination>>]>>,
     nightlife |->
        <<[name |-> "Local Bar District",
           description |-> <<"Popular nightlife area in ", destination>>]>>,
     shopping |->
        <<[name |-> "Local Market",
           description |-> <<"Traditional shopping area in ", destination>>]>>]

\* OpenAIService.createFallbackItinerary(request)
OpenAIService_createFallbackItinerary(request) ==
    [days |->
        [n \in 1..request.duration |->
            LET i == n - 1
                destination ==
                    DestinationAt(request.destinations,
                        DestinationIndex(i, request.duration,
                                         Len(request.destinations)))
            IN [day |-> i + 1,
                date |-> request.startDate + i,
                destination |-> destination,
                activities |->
                    <<[time |-> "09:00", title |-> <<"Explore ", destination>>,
                       priceEstimate |-> 30],
                      [time |-> "12:00", title |-> <<"Local Lunch", "">>,
                       priceEstimate |-> 25],
                      [time |-> "14:00", title |-> <<"Cultural Experience", "">>,
                       priceEstimate |-> 20],
                      [time |-> "19:00", title |-> <<"Dinner", "">>,
                       priceEstimate |-> 40]>>]],
     totalEstimatedCost |-> request.duration * 115,
     travelTips |-> <<"Pack light and bring comfortable walking shoes",
                      "Keep copies of important documents",
                      "Learn basic phrases in the local language">>,
     packingRecommendations |-> <<"Comfortable walking shoes",
                                  "Weather-appropriate clothing",
                                  "Portable charger">>]

\* ComprehensiveAIService.getFallbackSuggestions(query): the first three
\* entries of the edge function's static list, filtered without a test for
\* a blank query
ComprehensiveAIService_getFallbackSuggestions(query) ==
    LET q == toLowerCase(query)
        keep(dest) ==
            \/ includes(toLowerCase(dest.name), q)
            \/ includes(toLowerCase(dest.country), q)
            \/ \E t \in DOMAIN dest.popularFor :
                   includes(toLowerCase(dest.popularFor[t]), q)
    IN SelectSeq(SubSeq(fallbackDestinations, 1, 3), keep)

\* the try block of a method: what it throws or returns
ClientTry(method, outcome) ==
    IF outcome.net
    THEN [threw |-> TRUE, error |-> "TypeError: Failed to fetch"]
    ELSE IF ~IsOk(outcome.status)
    THEN IF method \in ErrorBodyMethods /\ ~outcome.json
         THEN [threw |-> TRUE, error |-> "SyntaxError"]
         ELSE IF method \in ErrorBodyMethods /\ outcome.null
         THEN [threw |-> TRUE, error |-> "TypeError"]
         ELSE [threw |-> TRUE, error |-> "API error"]
    ELSE IF ~outcome.json
    THEN [threw |-> TRUE, error |-> "SyntaxError"]
    ELSE IF /\ outcome.null
            /\ method \in {"OpenAIService.chatWithAssistant",
                           "ComprehensiveAIService.getDestinationSuggestions",
                           "ComprehensiveAIService.chatWithTravelExpert"}
    THEN [threw |-> TRUE, error |-> "TypeError"]
    ELSE [threw |-> FALSE, error |-> ""]

\* what the catch block of a method returns
ClientFallback(method, request) ==
    CASE method = "OpenAIService.getLocationRecommendations" ->
            OpenAIService_createFallbackRecommendations(request.destination)
      [] method = "OpenAIService.chatWithAssistant" ->
            "I'm sorry, I'm having trouble connecting right now. Please try again later."
      [] method = "OpenAIService.generateItinerary" ->
            OpenAIService_createFallbackItinerary(request)
      [] method = "ComprehensiveAIService.generateDetailedItinerary" ->
            ComprehensiveAIService_createFallbackItinerary(request)
      [] method = "ComprehensiveAIService.getDestinationSuggestions" ->
            ComprehensiveAIService_getFallbackSuggestions(request.query)
      [] OTHER ->
            "I'm having trouble connecting right now. Please try asking about specific destinations, hotels, restaurants, or travel tips!"

\* a plausible slip: the catch block logs the error and throws it again
ClientCatchRethrow(method, request, error) ==
    [kind |-> "settled", settled |-> "rejected", source |-> "error",
     value |-> error]

\* catch (error) { console.error(...); return <fallback> }
ClientCatch(method, request, error) ==
    [kind |-> "settled", settled |-> "resolved", source |-> "fallback",
     value |-> ClientFallback(method, request)]

InitClient ==
    /\ clientCall = NoClientCall
    /\ clientResult = NoResult
    /\ call = NoCall
    /\ handler = "none"
    /\ pc = "client"
    /\ apiKey = TRUE
    /\ req = NoRequest
    /\ env = NoBindings
    /\ caught = Undefined
    /\ reply = NoReply
    /\ resp = NoResp
    /\ table = {}
    /\ calls = NoCalls
    /\ cancelled = FALSE
    /\ autocomplete = NotMounted
    /\ chatbot = NotMounted
    /\ tripModal = NotMounted

\* a component calls a method; the method issues its fetch
ClientInvoke ==
    /\ clientCall.pc = "idle"
    /\ \E method \in ClientMethods :
         \E request \in ClientRequests(method) :
            clientCall' = [method |-> method, pc |-> "awaiting",
                           request |-> request]
    /\ UNCHANGED <<call, handler, pc, apiKey, req, env, caught, reply, resp,
                   clientResult, table, calls, cancelled, autocomplete,
                   chatbot, tripModal>>

\* the fetch settles and the method runs to its return
ClientSettle ==
    /\ clientCall.pc = "awaiting"
    /\ \E outcome \in HttpOutcomes :
         /\ clientResult' =
               LET t == ClientTry(clientCall.method, outcome) IN
               IF t.threw
               THEN ClientCatch(clientCall.method, clientCall.request, t.error)
               ELSE [kind |-> "settled", settled |-> "resolved",
                     source |-> "server",
                     value |-> IF outcome.null THEN "null" ELSE "data"]
         /\ clientCall' = [method |-> clientCall.method, pc |-> "settled",
                           request |-> clientCall.request,
                           outcome |-> outcome]
    /\ UNCHANGED <<call, handler, pc, apiKey, req, env, caught, reply, resp,
                   table, calls, cancelled, autocomplete, chatbot, tripModal>>

NextClient == ClientInvoke \/ ClientSettle

SpecClient == InitClient /\ [][NextClient]_vars

(***************************************************************************)
(* EnhancedDestinationAutocomplete: the input, its debounce timers and the *)
(* searches in flight. Time is counted in ticks of 100 ms.                 *)
(*   value       : the text of the input (the value prop)                  *)
(*   timers      : the setTimeout timers that have not fired               *)
(*   searches    : the calls of searchDestinations that await the service  *)
(*   suggestions : the suggestions state; isOpen, loading likewise         *)
(*   issued      : the queries searchDestinations was called with          *)
(*   changes     : the times of the input's change events                  *)
(*   edited      : clearInput or handleSelectSuggestion has run            *)
(***************************************************************************)
\* setTimeout(..., 300)
DebounceTicks == 3

\* what getDestinationSuggestions(query) resolves with while the edge
\* function answers from the seeded table (the body carries no limit)
SearchResults(query) ==
    IF NonBlank(query) THEN searchRows(SeedRows, query, LimitOrDefault(NoLimit))
    ELSE popularRows(SeedRows, LimitOrDefault(NoLimit))

\* searchDestinations(query), up to its await
searchDestinations(a, query, by) ==
    [a EXCEPT !.loading = TRUE,
              !.issued = Append(a.issued, [query |-> query, by |-> by]),
              !.searches = a.searches \cup
                  {[id |-> Len(a.issued) + 1,
                    query |-> IF NonBlank(query) THEN query ELSE <<>>]}]

InitAutocomplete ==
    /\ autocomplete =
          [mounted |-> TRUE, value |-> <<>>, now |-> 0, timers |-> {},
           searches |-> {}, suggestions |-> <<>>, isOpen |-> FALSE,
           loading |-> FALSE, issued |-> <<>>, changes |-> <<>>,
           edited |-> FALSE]
    /\ clientCall = NoClientCall
    /\ clientResult = NoResult
    /\ call = NoCall
    /\ handler = "none"
    /\ pc = "autocomplete"
    /\ apiKey = TRUE
    /\ req = NoRequest
    /\ env = NoBindings
    /\ caught = Undefined
    /\ reply = NoReply
    /\ resp = NoResp
    /\ table = {}
    /\ calls = NoCalls
    /\ cancelled = FALSE
    /\ chatbot = NotMounted
    /\ tripModal = NotMounted

\* a timer that is due fires before time moves on
TimerDue(a) == \E t \in a.timers : t.due <= a.now

\* handleInputChange(e), when the user changes the text of the input:
\* onChange(newValue) and a new timer; the function it returns is dropped by
\* React, so no earlier timer is cleared
handleInputChange ==
    /\ Len(autocomplete.changes) < MaxChanges
    /\ autocomplete.now <= MaxNow
    /\ ~TimerDue(autocomplete)
    /\ \E newValue \in {<<>>, <<"p">>, <<"t">>} \ {autocomplete.value} :
          autocomplete' =
              [autocomplete EXCEPT
                  !.value = newValue,
                  !.changes = Append(autocomplete.changes, autocomplete.now),
                  !.timers = autocomplete.timers \cup
                      {[id |-> Len(autocomplete.changes) + 1,
                        due |-> autocomplete.now + DebounceTicks,
                        query |-> newValue]}]
    /\ UNCHANGED <<call, handler, pc, apiKey, req, env, caught, reply, resp,
                   clientResult, table, calls, cancelled, clientCall, chatbot,
                   tripModal>>

\* 100 ms pass
Tick ==
    /\ ~TimerDue(autocomplete)
    /\ \/ autocomplete.timers # {}
       \/ autocomplete.now < MaxNow /\ Len(autocomplete.changes) < MaxChanges
    /\ autocomplete' = [autocomplete EXCEPT !.now = autocomplete.now + 1]
    /\ UNCHANGED <<call, handler, pc, apiKey, req, env, caught, reply, resp,
                   clientResult, table, calls, cancelled, clientCall, chatbot,
                   tripModal>>

\* a debounce timer fires: searchDestinations(newValue)
TimerFires ==
    /\ \E t \in autocomplete.timers :
          /\ t.due <= autocomplete.now
          /\ \A o \in autocomplete.timers : t.id <= o.id
          /\ autocomplete' =
                searchDestinations(
                    [autocomplete EXCEPT !.timers = autocomplete.timers \ {t}],
                    t.query, "timer")
    /\ UNCHANGED <<call, handler, pc, apiKey, req, env, caught, reply, resp,
                   clientResult, table, calls, cancelled, clientCall, chatbot,
                   tripModal>>

\* the service resolves one of the searches in flight, in any order, and
\* searchDestinations goes on after its await: setSuggestions(results),
\* setIsOpen(true), setLoading(false)
SearchResolves ==
    /\ \E search \in autocomplete.searches :
          autocomplete' =
              [autocomplete EXCEPT
                  !.suggestions = SearchResults(search.query),
                  !.isOpen = TRUE,
                  !.loading = FALSE,
                  !.searches = autocomplete.searches \ {search}]
    /\ UNCHANGED <<call, handler, pc, apiKey, req, env, caught, reply, resp,
                   clientResult, table, calls, cancelled, clientCall, chatbot,
                   tripModal>>

\* clearInput(): the user clears the input with the button
clearInput ==
    /\ autocomplete.value # <<>>
    /\ ~autocomplete.edited
    /\ autocomplete' = [autocomplete EXCEPT !.value = <<>>,
                                            !.suggestions = <<>>,
                                            !.isOpen = FALSE,
                                            !.edited = TRUE]
    /\ UNCHANGED <<call, handler, pc, apiKey, req, env, caught, reply, resp,
                   clientResult, table, calls, cancelled, clientCall, chatbot,
                   tripModal>>

\* handleSelectSuggestion(suggestion): the user picks the first or the last
\* of the suggestions shown
handleSelectSuggestion ==
    /\ autocomplete.isOpen
    /\ ~autocomplete.edited
    /\ \E i \in {1, Len(autocomplete.suggestions)} \ {0} :
          autocomplete' =
              [autocomplete EXCEPT
                  !.value = autocomplete.suggestions[i].name,
                  !.suggestions = <<>>,
                  !.isOpen = FALSE,
                  !.edited = TRUE]
    /\ UNCHANGED <<call, handler, pc, apiKey, req, env, caught, reply, resp,
                   clientResult, table, calls, cancelled, clientCall, chatbot,
                   tripModal>>

\* handleFocus(): the input gets the focus, before the first change
handleFocus ==
    /\ autocomplete.changes = <<>>
    /\ autocomplete.issued = <<>>
    /\ autocomplete' =
          IF autocomplete.value = <<>>
          THEN searchDestinations(autocomplete, <<>>, "focus")
          ELSE IF Len(autocomplete.suggestions) > 0
               THEN [autocomplete EXCEPT !.isOpen = TRUE]
               ELSE autocomplete
    /\ UNCHANGED <<call, handler, pc, apiKey, req, env, caught, reply, resp,
                   clientResult, table, calls, cancelled, clientCall, chatbot,
                   tripModal>>

NextAutocomplete ==
    \/ handleInputChange
    \/ Tick
    \/ TimerFires
    \/ SearchResolves
    \/ clearInput
    \/ handleSelectSuggestion
    \/ handleFocus

SpecAutocomplete == InitAutocomplete /\ [][NextAutocomplete]_vars

(***************************************************************************)
(* The itinerary fallback builders on their own, the edge functions' and   *)
(* the client's: trips of up to three destinations, and comprehensive      *)
(* plans for the durations a component can ask for.                        *)
(***************************************************************************)
TripDestinations == {"Paris", "Rome", "Tokyo"}

\* the lists of one to three different destinations, and the empty list
TripDestinationLists ==
    {<<>>}
        \cup {<<a>> : a \in TripDestinations}
        \cup {ds \in [1..2 -> TripDestinations] : ds[1] # ds[2]}
        \cup {ds \in [1..3 -> TripDestinations] :
                 ds[1] = "Paris" /\ ds[2] # ds[1] /\ ds[3] \notin {ds[1], ds[2]}}

\* the requests the builders are applied to; the least duration a component
\* computes from the dates of a stored trip is negative, Math.ceil((end -
\* start) / day), when the trip ends before it starts, and no form checks
\* the order of the two dates
BuildRequests(h) ==
    IF h = "generate-itinerary"
    THEN {[NoRequest EXCEPT !.valid = TRUE, !.destinations = ds,
                            !.startDate = sd, !.duration = n] :
            ds \in TripDestinationLists, sd \in StartDates,
            n \in 0..MaxBuildDuration}
    ELSE {[NoRequest EXCEPT !.valid = TRUE, !.destination = "Paris",
                            !.startDate = sd, !.duration = n, !.budget = b] :
            sd \in StartDates, n \in -1 .. MaxBuildDuration,
            b \in Budgets}

InitBuild ==
    /\ handler \in {"generate-itinerary", "comprehensive-itinerary"}
    /\ req \in BuildRequests(handler)
    /\ pc = "build"
    /\ resp = NoResp
    /\ clientResult = NoResult
    /\ clientCall = NoClientCall
    /\ call = NoCall
    /\ apiKey = TRUE
    /\ env = TryBindings(handler)
    /\ caught = Undefined
    /\ reply = NoReply
    /\ table = {}
    /\ calls = NoCalls
    /\ cancelled = FALSE
    /\ autocomplete = NotMounted
    /\ chatbot = NotMounted
    /\ tripModal = NotMounted

\* the edge function builds its fallback for the request
BuildServerFallback ==
    /\ pc = "build"
    /\ resp = NoResp
    /\ resp' = JsonResponse(200, FallbackBody(handler, req))
    /\ UNCHANGED <<call, handler, pc, apiKey, req, env, caught, reply,
                   clientResult, table, calls, cancelled, clientCall,
                   autocomplete, chatbot, tripModal>>

\* the client builds its fallback for the same request
BuildClientFallback ==
    /\ pc = "build"
    /\ clientResult = NoResult
    /\ clientResult' =
          ClientCatch(IF handler = "generate-itinerary"
                      THEN "OpenAIService.generateItinerary"
                      ELSE "ComprehensiveAIService.generateDetailedItinerary",
                      req, "TypeError: Failed to fetch")
    /\ UNCHANGED <<call, handler, pc, apiKey, req, env, caught, reply, resp,
                   table, calls, cancelled, clientCall, autocomplete, chatbot,
                   tripModal>>

NextBuild == BuildServerFallback \/ BuildClientFallback

SpecBuild == InitBuild /\ [][NextBuild]_vars

(***************************************************************************)
(* TravelExpertChatbot.                                                    *)
(*   messages     : the messages state, each a role and a content          *)
(*   inputMessage : the text of the input                                  *)
(*   isLoading    : a reply is awaited                                     *)
(*   pending      : the calls of sendMessage that await the service        *)
(*   sends        : how many messages the user has sent                    *)
(*   cleared      : clearChat has run and no message was sent since        *)
(***************************************************************************)
\* the assistant message the chat starts with
Greeting == [role |-> "assistant", content |-> <<"H", "e", "l", "l", "o", "!">>]

\* what the user types
ChatTexts == {<<"h", "i">>, <<" ", "g", "o">>, <<" ">>}

\* what chatWithTravelExpert resolves with: the expert's answer, or the
\* service's own message when its request failed (the service catches every
\* failure, so the catch block of sendMessage is never entered)
ChatReplies == {<<"o", "k">>, <<"s", "o", "r", "r", "y">>}

InitChatbot ==
    /\ chatbot = [mounted |-> TRUE, messages |-> <<Greeting>>,
                  inputMessage |-> <<>>, isLoading |-> FALSE, pending |-> {},
                  sends |-> 0, cleared |-> FALSE]
    /\ tripModal = NotMounted
    /\ autocomplete = NotMounted
    /\ clientCall = NoClientCall
    /\ clientResult = NoResult
    /\ call = NoCall
    /\ handler = "none"
    /\ pc = "chatbot"
    /\ apiKey = TRUE
    /\ req = NoRequest
    /\ env = NoBindings
    /\ caught = Undefined
    /\ reply = NoReply
    /\ resp = NoResp
    /\ table = {}
    /\ calls = NoCalls
    /\ cancelled = FALSE

\* the user types a message (the input is disabled while a reply is awaited)
TypeMessage ==
    /\ ~chatbot.isLoading
    /\ chatbot.sends < MaxSends
    /\ \E text \in ChatTexts \ {chatbot.inputMessage} :
          chatbot' = [chatbot EXCEPT !.inputMessage = text]
    /\ UNCHANGED <<call, handler, pc, apiKey, req, env, caught, reply, resp,
                   clientResult, table, calls, cancelled, clientCall,
                   autocomplete, tripModal>>

\* sendMessage(), up to its await: the user presses Enter or the send button
sendMessage ==
    /\ trim(chatbot.inputMessage) # <<>>
    /\ ~chatbot.isLoading
    /\ chatbot' = [chatbot EXCEPT
                      !.messages = Append(chatbot.messages,
                                          [role |-> "user",
                                           content |-> trim(chatbot.inputMessage)]),
                      !.inputMessage = <<>>,
                      !.isLoading = TRUE,
                      !.pending = chatbot.pending \cup {chatbot.sends + 1},
                      !.sends = chatbot.sends + 1,
                      !.cleared = FALSE]
    /\ UNCHANGED <<call, handler, pc, apiKey, req, env, caught, reply, resp,
                   clientResult, table, calls, cancelled, clientCall,
                   autocomplete, tripModal>>

\* chatWithTravelExpert resolves and sendMessage() goes on after its await:
\* setMessages(prev => [...prev, assistantMessage]) and setIsLoading(false)
ReplyArrives ==
    /\ \E id \in chatbot.pending, response \in ChatReplies :
          chatbot' = [chatbot EXCEPT
                         !.messages = Append(chatbot.messages,
                                             [role |-> "assistant",
                                              content |-> response]),
                         !.isLoading = FALSE,
                         !.pending = chatbot.pending \ {id}]
    /\ UNCHANGED <<call, handler, pc, apiKey, req, env, caught, reply, resp,
                   clientResult, table, calls, cancelled, clientCall,
                   autocomplete, tripModal>>

\* clearChat(): the user presses "Clear chat", which is never disabled
clearChat ==
    /\ chatbot.messages # <<Greeting>>
    /\ chatbot' = [chatbot EXCEPT !.messages = <<Greeting>>, !.cleared = TRUE]
    /\ UNCHANGED <<call, handler, pc, apiKey, req, env, caught, reply, resp,
                   clientResult, table, calls, cancelled, clientCall,
                   autocomplete, tripModal>>

NextChatbot == TypeMessage \/ sendMessage \/ ReplyArrives \/ clearChat

SpecChatbot == InitChatbot /\ [][NextChatbot]_vars

(***************************************************************************)
(* CreateTripModal.  A date of the form is a day number, an instant is a   *)
(* number of hours since the epoch, and the time zone of the browser is    *)
(* its offset from UTC in hours.                                           *)
(***************************************************************************)
\* the value of an empty date input
NoDate == 0

\* UTC offsets of the browser: New York (winter), London (winter), Tokyo
TimeZones == {-5, 0, 9}

\* what the user can put into a destination row
DestinationValues == {<<>>, <<" ">>, <<"a">>, <<"b", " ">>}

\* new Date('yyyy-MM-dd'): a date-only string is midnight UTC of that day
parseDate(day) == day * 24

\* date-fns format(date, 'yyyy-MM-dd'): the calendar day of the instant in
\* the time zone of the browser
format(instant, tz) == (instant + tz) \div 24

\* destinations.filter(dest => dest.trim())
validDestinations(destinations) ==
    SelectSeq(destinations, LAMBDA dest : trim(dest) # <<>>)

\* the destinationsData of handleCreateTrip
destinationsData(m) ==
    LET valid == validDestinations(m.destinations)
        n == Len(valid)
        startDate == parseDate(m.startDate)
        endDate == parseDate(m.endDate)
        totalDays == CeilDiv(endDate - startDate, 24)
        daysPerDestination == IF n > 0 THEN totalDays \div n ELSE 0
        arrivalDate(index) ==
            startDate + index * daysPerDestination * 24
        departureDate(index) ==
            IF index = n - 1 THEN endDate
            ELSE arrivalDate(index) + daysPerDestination * 24
    IN  [i \in 1 .. n |->
            [name |-> trim(valid[i]),
             arrival_date |-> format(arrivalDate(i - 1), m.tz),
             departure_date |-> format(departureDate(i - 1), m.tz),
             order_index |-> i - 1]]

InitTrip ==
    /\ \E tz \in TimeZones :
          tripModal = [mounted |-> TRUE, isOpen |-> TRUE, step |-> 1,
                       name |-> "", startDate |-> NoDate, endDate |-> NoDate,
                       destinations |-> << <<>> >>, tz |-> tz,
                       saved |-> [kind |-> "none"]]
    /\ chatbot = NotMounted
    /\ autocomplete = NotMounted
    /\ clientCall = NoClientCall
    /\ clientResult = NoResult
    /\ call = NoCall
    /\ handler = "none"
    /\ pc = "tripModal"
    /\ apiKey = TRUE
    /\ req = NoRequest
    /\ env = NoBindings
    /\ caught = Undefined
    /\ reply = NoReply
    /\ resp = NoResp
    /\ table = {}
    /\ calls = NoCalls
    /\ cancelled = FALSE

\* step 1: the name input
SetName ==
    /\ tripModal.isOpen /\ tripModal.step = 1
    /\ tripModal.name = ""
    /\ tripModal' = [tripModal EXCEPT !.name = "Trip"]
    /\ UNCHANGED <<call, handler, pc, apiKey, req, env, caught, reply, resp,
                   clientResult, table, calls, cancelled, clientCall,
                   autocomplete, chatbot>>

\* step 1: the start date input
SetStartDate ==
    /\ tripModal.isOpen /\ tripModal.step = 1
    /\ \E day \in 1 .. MaxTripDay \ {tripModal.startDate} :
          tripModal' = [tripModal EXCEPT !.startDate = day]
    /\ UNCHANGED <<call, handler, pc, apiKey, req, env, caught, reply, resp,
                   clientResult, table, calls, cancelled, clientCall,
                   autocomplete, chatbot>>

\* step 1: the end date input, which accepts any day
SetEndDate ==
    /\ tripModal.isOpen /\ tripModal.step = 1
    /\ \E day \in 1 .. MaxTripDay \ {tripModal.endDate} :
          tripModal' = [tripModal EXCEPT !.endDate = day]
    /\ UNCHANGED <<call, handler, pc, apiKey, req, env, caught, reply, resp,
                   clientResult, table, calls, cancelled, clientCall,
                   autocomplete, chatbot>>

\* nextStep(), unless the Next button is disabled
NextStep ==
    /\ tripModal.isOpen /\ tripModal.step < 3
    /\ ~ \/ /\ tripModal.step = 1
             /\ \/ tripModal.name = ""
                \/ tripModal.startDate = NoDate
                \/ tripModal.endDate = NoDate
          \/ /\ tripModal.step = 2
             /\ Len(validDestinations(tripModal.destinations)) = 0
    /\ tripModal' = [tripModal EXCEPT !.step = tripModal.step + 1]
    /\ UNCHANGED <<call, handler, pc, apiKey, req, env, caught, reply, resp,
                   clientResult, table, calls, cancelled, clientCall,
                   autocomplete, chatbot>>

\* prevStep()
PrevStep ==
    /\ tripModal.isOpen /\ tripModal.step > 1
    /\ tripModal' = [tripModal EXCEPT !.step = tripModal.step - 1]
    /\ UNCHANGED <<call, handler, pc, apiKey, req, env, caught, reply, resp,
                   clientResult, table, calls, cancelled, clientCall,
                   autocomplete, chatbot>>

\* addDestination()
AddDestination ==
    /\ tripModal.isOpen /\ tripModal.step = 2
    /\ Len(tripModal.destinations) < MaxDestinations
    /\ tripModal' = [tripModal EXCEPT
                        !.destinations = Append(tripModal.destinations, <<>>)]
    /\ UNCHANGED <<call, handler, pc, apiKey, req, env, caught, reply, resp,
                   clientResult, table, calls, cancelled, clientCall,
                   autocomplete, chatbot>>

\* removeDestination(index)
RemoveDestination ==
    /\ tripModal.isOpen /\ tripModal.step = 2
    /\ Len(tripModal.destinations) > 1
    /\ \E index \in 1 .. Len(tripModal.destinations) :
          tripModal' = [tripModal EXCEPT
              !.destinations =
                  [i \in 1 .. Len(tripModal.destinations) - 1 |->
                      IF i < index THEN tripModal.destinations[i]
                      ELSE tripModal.destinations[i + 1]]]
    /\ UNCHANGED <<call, handler, pc, apiKey, req, env, caught, reply, resp,
                   clientResult, table, calls, cancelled, clientCall,
                   autocomplete, chatbot>>

\* updateDestination(index, value)
UpdateDestination ==
    /\ tripModal.isOpen /\ tripModal.step = 2
    /\ \E index \in 1 .. Len(tripModal.destinations) :
          \E value \in DestinationValues \ {tripModal.destinations[index]} :
             tripModal' = [tripModal EXCEPT !.destinations[index] = value]
    /\ UNCHANGED <<call, handler, pc, apiKey, req, env, caught, reply, resp,
                   clientResult, table, calls, cancelled, clientCall,
                   autocomplete, chatbot>>

\* handleCreateTrip(), by the Create Trip button of step 3: the trip and its
\* destinations are saved, the modal is closed and the form is reset
handleCreateTrip ==
    /\ tripModal.isOpen /\ tripModal.step = 3
    /\ tripModal' = [tripModal EXCEPT
                        !.saved = [kind |-> "trip",
                                   trip |-> [name |-> tripModal.name,
                                             start_date |-> tripModal.startDate,
                                             end_date |-> tripModal.endDate],
                                   destinations |-> destinationsData(tripModal)],
                        !.isOpen = FALSE,
                        !.step = 1,
                        !.name = "",
                        !.startDate = NoDate,
                        !.endDate = NoDate,
                        !.destinations = << <<>> >>]
    /\ UNCHANGED <<call, handler, pc, apiKey, req, env, caught, reply, resp,
                   clientResult, table, calls, cancelled, clientCall,
                   autocomplete, chatbot>>

NextTrip ==
    \/ SetName
    \/ SetStartDate
    \/ SetEndDate
    \/ NextStep
    \/ PrevStep
    \/ AddDestination
    \/ RemoveDestination
    \/ UpdateDestination
    \/ handleCreateTrip

SpecTrip == InitTrip /\ [][NextTrip]_vars

(***************************************************************************)
(* fetchWithRetry on its own, for every maxRetries in 0..MaxMaxRetries.    *)
(***************************************************************************)
InitFetch ==
    /\ \E m \in 0..MaxMaxRetries : call = CallEnter(m)
    /\ handler = "none"
    /\ pc = "fetchWithRetry"
    /\ apiKey = TRUE
    /\ req = NoRequest
    /\ env = NoBindings
    /\ caught = Undefined
    /\ reply = NoReply
    /\ resp = NoResp
    /\ clientResult = NoResult
    /\ table = {}
    /\ calls = NoCalls
    /\ cancelled = FALSE
    /\ clientCall = NoClientCall
    /\ autocomplete = NotMounted
    /\ chatbot = NotMounted
    /\ tripModal = NotMounted

FetchAttempt ==
    /\ call.pc = "fetch"
    /\ \E result \in TransportResults : call' = CallIteration(call, result)
    /\ UNCHANGED <<handler, pc, apiKey, req, env, caught, reply, resp, clientResult, table, calls, cancelled,
                   clientCall, autocomplete, chatbot, tripModal>>

BackoffElapsed ==
    /\ call.pc = "delay"
    /\ call' = CallResume(call)
    /\ UNCHANGED <<handler, pc, apiKey, req, env, caught, reply, resp, clientResult, table, calls, cancelled,
                   clientCall, autocomplete, chatbot, tripModal>>

NextFetch == FetchAttempt \/ BackoffElapsed

SpecFetch == InitFetch /\ [][NextFetch]_vars

(***************************************************************************)
(* The serve handlers: one POST from its arrival to the Response.          *)
(***************************************************************************)
\* a plausible slip: the configuration check is missing
MissingKeyIgnored(key) == FALSE

\* if (!openaiApiKey)
MissingKey(key) == ~key

Init ==
    /\ call = NoCall
    /\ handler = "none"
    /\ pc = "idle"
    /\ apiKey = TRUE
    /\ req = NoRequest
    /\ env = NoBindings
    /\ caught = Undefined
    /\ reply = NoReply
    /\ resp = NoResp
    /\ clientResult = NoResult
    /\ table = {}
    /\ calls = NoCalls
    /\ cancelled = FALSE
    /\ clientCall = NoClientCall
    /\ autocomplete = NotMounted
    /\ chatbot = NotMounted
    /\ tripModal = NotMounted

\* a POST reaches one of the edge functions
Receive ==
    /\ pc = "idle"
    /\ \E h \in Handlers :
         /\ handler' = h
         /\ \E r \in Requests(h) : req' = r
    /\ \E key \in BOOLEAN : apiKey' = key
    /\ pc' = "json"
    /\ UNCHANGED <<call, env, caught, reply, resp, clientResult, table, calls, cancelled,
                   clientCall, autocomplete, chatbot, tripModal>>

\* await req.json() settles; the try block runs up to its next await (the
\* first fetch of fetchWithRetry, or the catalog query) or to a throw
EnterTry ==
    /\ pc = "json"
    /\ IF ~req.valid
       THEN /\ pc' = "catch"
            /\ caught' = [msg |-> "SyntaxError", at |-> -1]
            /\ UNCHANGED <<call, env>>
       ELSE IF handler = "destination-suggestions"
       THEN /\ pc' = "query"
            /\ env' = TryBindings(handler)
            /\ UNCHANGED <<call, caught>>
       ELSE IF MissingKey(apiKey)
       THEN \* throw new Error('OpenAI API key not configured'): the
            \* bindings of the try block go out of scope
            /\ pc' = "catch"
            /\ caught' = [msg |-> "OpenAI API key not configured", at |-> -1]
            /\ env' = NoBindings
            /\ UNCHANGED call
       ELSE /\ pc' = "fetching"
            /\ env' = TryBindings(handler)
            /\ call' = CallEnter(HandlerMaxRetries)
            /\ UNCHANGED caught
    /\ UNCHANGED <<handler, apiKey, req, reply, resp, clientResult, table, calls, cancelled,
                   clientCall, autocomplete, chatbot, tripModal>>

\* fetchWithRetry returned a Response: await response.text() when it is
\* not ok, await response.json() otherwise
ReadResponse ==
    /\ pc = "fetching"
    /\ call.pc = "returned"
    /\ \E rep \in (IF IsOk(call.returned.status) THEN OkReplies(MaxReplyLen)
                   ELSE {ErrorTextReply}) : reply' = rep
    /\ pc' = "respond"
    /\ UNCHANGED <<call, handler, apiKey, req, env, caught, resp, clientResult, table, calls, cancelled,
                   clientCall, autocomplete, chatbot, tripModal>>

\* the rest of the try block
Respond ==
    /\ pc = "respond"
    /\ LET o == AfterFetch(handler, req, call.returned.status, reply) IN
       IF o.threw
       THEN /\ pc' = "catch"
            /\ caught' = o.error
            /\ env' = NoBindings
            /\ UNCHANGED resp
       ELSE /\ pc' = "done"
            /\ resp' = o.resp
            /\ UNCHANGED <<caught, env>>
    /\ UNCHANGED <<call, handler, apiKey, req, reply, clientResult, table, calls, cancelled,
                   clientCall, autocomplete, chatbot, tripModal>>

\* fetchWithRetry threw: control leaves the try block
FetchThrew ==
    /\ pc = "fetching"
    /\ call.pc = "thrown"
    /\ pc' = "catch"
    /\ caught' = call.thrown
    /\ env' = NoBindings
    /\ UNCHANGED <<call, handler, apiKey, req, reply, resp, clientResult, table, calls, cancelled,
                   clientCall, autocomplete, chatbot, tripModal>>

\* the catch block of the handler; an error thrown inside it rejects the
\* handler's promise
Catch ==
    /\ pc = "catch"
    /\ LET o == CatchBlock(handler, env, req, caught) IN
       IF o.threw
       THEN /\ pc' = "crashed"
            /\ resp' = UncaughtResponse(o.error.msg)
       ELSE /\ pc' = "done"
            /\ resp' = o.resp
    /\ UNCHANGED <<call, handler, apiKey, req, env, caught, reply, clientResult, table, calls, cancelled,
                   clientCall, autocomplete, chatbot, tripModal>>

\* destination-suggestions: the select answers with rows, answers with an
\* error, or something in the try block throws
CatalogQuery ==
    /\ pc = "query"
    /\ \E rows \in Tables, outcome \in {"data", "error", "throw"} :
         /\ table' = rows
         /\ CASE outcome = "data" ->
                /\ pc' = "done"
                /\ resp' = JsonResponse(200,
                      SuggestionsBody("catalog", req.query,
                          IF NonBlank(req.query)
                          THEN searchRows(rows, req.query,
                                          LimitOrDefault(req.limit))
                          ELSE popularRows(rows, LimitOrDefault(req.limit)),
                          FALSE))
                /\ UNCHANGED <<caught, env>>
              [] outcome = "error" ->
                /\ pc' = "done"
                /\ resp' = JsonResponse(200,
                      SuggestionsBody("static", req.query,
                          IF NonBlank(req.query)
                          THEN getFallbackSuggestions(req.query)
                          ELSE getFallbackSuggestions(<<>>),
                          FALSE))
                /\ UNCHANGED <<caught, env>>
              [] OTHER ->
                /\ pc' = "catch"
                /\ caught' = [msg |-> "TypeError", at |-> -1]
                /\ env' = NoBindings
                /\ UNCHANGED resp
    /\ UNCHANGED <<call, handler, apiKey, req, reply, clientResult, calls, cancelled,
                   clientCall, autocomplete, chatbot, tripModal>>

\* the client's fetch of comprehensive-itinerary settles and
\* generateDetailedItinerary resolves
ClientResolve ==
    /\ pc \in {"done", "crashed"}
    /\ handler = "comprehensive-itinerary"
    /\ req.valid
    /\ clientResult' = generateDetailedItinerary(req, resp)
    /\ pc' = "resolved"
    /\ UNCHANGED <<call, handler, apiKey, req, env, caught, reply, resp, table, calls, cancelled,
                   clientCall, autocomplete, chatbot, tripModal>>

Next ==
    \/ Receive
    \/ EnterTry
    \/ FetchAttempt
    \/ BackoffElapsed
    \/ ReadResponse
    \/ Respond
    \/ FetchThrew
    \/ Catch
    \/ CatalogQuery
    \/ ClientResolve

Spec == Init /\ [][Next]_vars

(***************************************************************************)
(* fetchWithRetry called several times before any call has settled.        *)
(***************************************************************************)
InitConcurrent ==
    /\ calls \in [CallIds -> {CallEnter(m) : m \in 0..MaxConcurrentRetries}]
    /\ cancelled = FALSE
    /\ clientCall = NoClientCall
    /\ autocomplete = NotMounted
    /\ chatbot = NotMounted
    /\ tripModal = NotMounted
    /\ call = NoCall
    /\ handler = "none"
    /\ pc = "fetchWithRetry"
    /\ apiKey = TRUE
    /\ req = NoRequest
    /\ env = NoBindings
    /\ caught = Undefined
    /\ reply = NoReply
    /\ resp = NoResp
    /\ clientResult = NoResult
    /\ table = {}

\* the fetch of call i settles
ConcurrentAttemptOf(i) ==
    /\ calls[i].pc = "fetch"
    /\ \E result \in TransportResults :
          calls' = ConcurrentIteration(calls, i, result)
    /\ UNCHANGED <<call, handler, pc, apiKey, req, env, caught, reply, resp,
                   clientResult, table, cancelled,
                   clientCall, autocomplete, chatbot, tripModal>>

\* the timer of call i fires
ConcurrentBackoffElapsedOf(i) ==
    /\ calls[i].pc = "delay"
    /\ calls' = [calls EXCEPT ![i] = CallResume(calls[i])]
    /\ UNCHANGED <<call, handler, pc, apiKey, req, env, caught, reply, resp,
                   clientResult, table, cancelled,
                   clientCall, autocomplete, chatbot, tripModal>>

ConcurrentAttempt == \E i \in CallIds : ConcurrentAttemptOf(i)

ConcurrentBackoffElapsed == \E i \in CallIds : ConcurrentBackoffElapsedOf(i)

NextConcurrent == ConcurrentAttempt \/ ConcurrentBackoffElapsed

SpecConcurrent == InitConcurrent /\ [][NextConcurrent]_vars

\* the caller gives up (its deadline passes, it aborts its request or it
\* disconnects) while fetchWithRetry awaits a fetch or a delay; the handler
\* passes no signal to fetch and reads none, so nothing else changes
Cancel ==
    /\ pc = "fetching"
    /\ call.pc \in {"fetch", "delay"}
    /\ ~cancelled
    /\ cancelled' = TRUE
    /\ UNCHANGED <<call, handler, pc, apiKey, req, env, caught, reply, resp,
                   clientResult, table, calls, clientCall, autocomplete,
                   chatbot, tripModal>>

NextCancel == Next \/ Cancel

SpecCancel == Init /\ [][NextCancel]_vars

\* every step of the program that can be taken is taken in the end: a
\* fetch settles, a timer fires, an awaited promise resumes its handler
SpecLive == Init /\ [][Next]_vars /\ WF_vars(Next)

(***************************************************************************)
(* The parse step on its own: the handler holds an ok Response, returned   *)
(* by the first attempt, and has read its body.                            *)
(***************************************************************************)
InitResolve ==
    /\ call = CallIteration(CallEnter(HandlerMaxRetries),
                            [kind |-> "response", status |-> 200, msg |-> ""])
    /\ handler \in ParseHandlers
    /\ pc = "respond"
    /\ apiKey = TRUE
    /\ req \in {r \in Requests(handler) : r.valid}
    /\ env = TryBindings(handler)
    /\ caught = Undefined
    /\ reply \in OkReplies(MaxTextLen)
    /\ resp = NoResp
    /\ clientResult = NoResult
    /\ table = {}
    /\ calls = NoCalls
    /\ cancelled = FALSE
    /\ clientCall = NoClientCall
    /\ autocomplete = NotMounted
    /\ chatbot = NotMounted
    /\ tripModal = NotMounted

NextResolve == Respond \/ Catch \/ ClientResolve

SpecResolve == InitResolve /\ [][NextResolve]_vars

(***************************************************************************)
(* Properties of fetchWithRetry.                                           *)
(***************************************************************************)
CallDone(c) == c.pc \in {"returned", "thrown"}

\* the attempt ended in a retryable failure: 429, a status >= 500, or a
\* thrown network error
RetryableFailure(result) ==
    \/ result.kind = "error"
    \/ result.kind = "response" /\ (result.status = 429 \/ result.status >= 500)

AllRetryableFailures(results) ==
    \A i \in 1..Len(results) : RetryableFailure(results[i])

\* C1: a call in which every attempt ends in a retryable failure performs
\* exactly maxRetries + 1 fetch attempts: never more while it runs, and
\* exactly that many once it has returned or thrown.
C1_AttemptsExactlyMaxRetriesPlusOne ==
    AllRetryableFailures(call.results) =>
        /\ Len(call.results) <= call.maxRetries + 1
        /\ CallDone(call) => Len(call.results) = call.maxRetries + 1

C1_Witness ==
    /\ CallDone(call)
    /\ call.maxRetries = 3
    /\ Len(call.results) = 4
    /\ AllRetryableFailures(call.results)
    /\ \E i, j, k \in 1..4 :
          /\ call.results[i].status = 429
          /\ call.results[j].status >= 500
          /\ call.results[k].kind = "error"

\* C2: when every attempt returns 429 or 5xx and none raises a network
\* error, the call throws the synthetic 'Max retries exceeded' error and
\* returns no response.
C2_BadStatusesEndInSyntheticError ==
    ( /\ CallDone(call)
      /\ \A i \in 1..Len(call.results) :
            /\ call.results[i].kind = "response"
            /\ IsRetryableStatus(call.results[i].status) )
    => /\ call.pc = "thrown"
       /\ call.thrown = MaxRetriesExceeded
       /\ call.returned = NoResponse

\* C3: a response whose status is neither 429 nor >= 500 ends the call at
\* once: it is the last attempt, that response (status and attempt) is what
\* the call returns, and no delay follows it; a first attempt answering 200
\* is the only attempt.
C3_NonRetryableReturnedAtOnce ==
    \A i \in 1..Len(call.results) :
        ( /\ call.results[i].kind = "response"
          /\ ~(call.results[i].status = 429 \/ call.results[i].status >= 500) )
        => /\ i = Len(call.results)
           /\ call.pc = "returned"
           /\ call.returned = [status |-> call.results[i].status, at |-> i - 1]
           /\ Len(call.delays) = i - 1

C3_Witness ==
    /\ call.pc = "returned"
    /\ call.returned.status = 404
    /\ Len(call.results) = 2
    /\ call.maxRetries = 3

C3_WitnessFirst200 ==
    /\ call.pc = "returned"
    /\ call.returned = [status |-> 200, at |-> 0]
    /\ Len(call.results) = 1

\* C4 as stated: the delay that precedes attempt n (attempts numbered from
\* 0, so delays[n] is slept between attempt n-1 and attempt n) is
\* 2^n * 1000 ms.
C4_DelayBeforeAttemptN_Original ==
    \A n \in 1..Len(call.delays) : call.delays[n] = Pow2(n) * 1000

\* C4 amended: the delay that precedes attempt n is 2^(n-1) * 1000 ms, that
\* is 2^a * 1000 ms for the attempt a = n - 1 that just failed.
C4_DelayBeforeAttemptN ==
    \A n \in 1..Len(call.delays) : call.delays[n] = Pow2(n - 1) * 1000

C4_Witness ==
    /\ Len(call.delays) = 3
    /\ call.pc = "fetch"
    /\ call.attempt = 3

\* C5: the number of delays of a finished call is its number of attempts
\* minus one (none after the final attempt), and with maxRetries = 3 and
\* every attempt failing retryably the delays are 1000, 2000, 4000 ms in
\* that order.
C5_DelaySequence ==
    CallDone(call) =>
        /\ Len(call.delays) = Len(call.results) - 1
        /\ (call.maxRetries = 3 /\ AllRetryableFailures(call.results))
              => call.delays = <<1000, 2000, 4000>>

C5_Witness ==
    /\ CallDone(call)
    /\ call.maxRetries = 3
    /\ AllRetryableFailures(call.results)
    /\ call.delays = <<1000, 2000, 4000>>
    /\ call.results[4].kind = "response"

\* C6: when attempt number maxRetries raises a network error, the call
\* throws the error of that attempt: not an earlier one, not the synthetic
\* one.
C6_ThrowsMostRecentError ==
    ( /\ Len(call.results) = call.maxRetries + 1
      /\ call.results[Len(call.results)].kind = "error" )
    => /\ call.pc = "thrown"
       /\ call.thrown = [msg |-> call.results[Len(call.results)].msg,
                         at |-> call.maxRetries]

C6_Witness ==
    /\ call.pc = "thrown"
    /\ call.maxRetries = 3
    /\ call.results[1].kind = "error"
    /\ call.results[4].kind = "error"
    /\ call.results[1].msg # call.results[4].msg
    /\ call.thrown.msg = call.results[4].msg

(***************************************************************************)
(* Properties of the handlers.                                             *)
(***************************************************************************)
\* the handler has produced its Response, or its promise has rejected
Finished == pc \in {"done", "crashed"}

\* C7: every feature endpoint answers every POST with an HTTP 200 JSON
\* response, whatever the provider does: never a 5xx status, never an
\* uncaught exception.
C7_Always200Json ==
    (handler \in Handlers /\ Finished) =>
        /\ pc = "done"
        /\ resp.status = 200
        /\ resp.json

\* C8: in generate-itinerary and location-recommendations, when
\* fetchWithRetry throws or the API key is missing, the request values bound
\* at the start of the handler are in scope for the fallback builder of the
\* catch block, and the handler answers with the fallback payload built from
\* the request's own parameters.
C8_FallbackFromRequestOnErrorPath ==
    ( /\ handler \in {"generate-itinerary", "location-recommendations"}
      /\ req.valid
      /\ (call.pc = "thrown" \/ ~apiKey) )
    => /\ pc = "catch" => CatchReads(handler) \subseteq env.bound
       /\ Finished =>
            /\ pc = "done"
            /\ resp.status = 200
            /\ resp.body.kind = "fallback"
            /\ resp.body.value = FallbackFor(handler, req)

\* C9: in both chat handlers, when OPENAI_API_KEY is not configured the
\* handler makes no provider fetch, no exception escapes it, and it answers
\* 200 with a JSON body whose response field is its canned message.
C9_MissingKeyCannedMessage ==
    (handler \in ChatHandlers /\ ~apiKey) =>
        /\ call = NoCall
        /\ pc # "crashed"
        /\ Finished => resp = JsonResponse(200, CannedBody(handler))

C9_Witness ==
    /\ handler = "travel-expert-chat"
    /\ ~apiKey
    /\ req.valid
    /\ pc = "done"
    /\ caught.msg = "OpenAI API key not configured"
    /\ resp.body.canned = CannedMessage("travel-expert-chat")

\* the spans of a text that are well-formed JSON objects
ObjectSpans(s) ==
    {sp \in (1..Len(s)) \X (1..Len(s)) :
        /\ sp[1] <= sp[2]
        /\ s[sp[1]] = "{"
        /\ JSONParse(SubSeq(s, sp[1], sp[2])).ok}

\* those that are not nested in another one
TopLevelSpans(s) ==
    {sp \in ObjectSpans(s) :
        \A other \in ObjectSpans(s) :
            (other[1] <= sp[1] /\ sp[2] <= other[2]) => other = sp}

\* the text holds exactly one JSON object, which has the required key,
\* surrounded by any other tokens
OneExpectedObject(s) ==
    /\ Cardinality(TopLevelSpans(s)) = 1
    /\ \A sp \in TopLevelSpans(s) : JSONParse(SubSeq(s, sp[1], sp[2])).val.d

\* C10: for a reply that consists of one well-formed JSON object of the
\* expected shape surrounded by arbitrary prose (which may contain braces),
\* the handler answers with exactly that decoded object, not the fallback.
C10_EmbeddedObjectIsParsed ==
    ( /\ handler \in ParseHandlers
      /\ pc = "done"
      /\ IsOk(call.returned.status)
      /\ reply.kind = "Text"
      /\ OneExpectedObject(reply.content) )
    => /\ resp.body.kind = "parsed"
       /\ \A sp \in TopLevelSpans(reply.content) :
            resp.body.value = JSONParse(SubSeq(reply.content, sp[1], sp[2])).val

\* the position at which the brace opened at position i is closed, scanning
\* from position j with `depth` braces open; 0 when it is never closed
RECURSIVE ClosingBrace(_, _, _)
ClosingBrace(s, j, depth) ==
    IF j > Len(s) THEN 0
    ELSE IF s[j] = "{" THEN ClosingBrace(s, j + 1, depth + 1)
    ELSE IF s[j] = "}"
    THEN IF depth = 1 THEN j ELSE ClosingBrace(s, j + 1, depth - 1)
    ELSE ClosingBrace(s, j + 1, depth)

\* the balanced brace-delimited groups of a text that start at an opening
\* brace, as <<first, last>> positions
BalancedGroups(s) ==
    {<<i, ClosingBrace(s, i + 1, 1)>> :
        i \in {p \in Positions(s, "{") : ClosingBrace(s, p + 1, 1) # 0}}

\* the top-level ones: not inside another balanced group
TopLevelGroups(s) ==
    {g \in BalancedGroups(s) :
        \A other \in BalancedGroups(s) :
            (other[1] <= g[1] /\ g[2] <= other[2]) => other = g}

\* the first balanced top-level group of a text that has one
FirstGroup(s) ==
    CHOOSE g \in TopLevelGroups(s) : \A other \in TopLevelGroups(s) : g[1] <= other[1]

\* C11: the text handed to the JSON decoder is the first balanced top-level
\* brace-delimited substring of the reply; for a reply with two or more
\* separate top-level groups only the first is extracted and decoded, so the
\* response is that group's decoded object, or the fallback when that group
\* is not valid JSON.
C11_FirstBalancedGroupIsDecoded ==
    ( /\ handler \in ParseHandlers
      /\ pc = "done"
      /\ IsOk(call.returned.status)
      /\ reply.kind = "Text"
      /\ Cardinality(TopLevelGroups(reply.content)) >= 2 )
    => LET g == FirstGroup(reply.content)
           first == SubSeq(reply.content, g[1], g[2])
       IN /\ JsonMatch(reply.content).found
          /\ JsonMatch(reply.content).text = first
          /\ resp.body.kind = IF JSONParse(first).ok THEN "parsed" ELSE "fallback"
          /\ JSONParse(first).ok => resp.body.value = JSONParse(first).val

\* C12: when the reply holds syntactically valid JSON that lacks a required
\* key of the expected shape (for example {}), the handler answers with the
\* fallback payload, never with the incomplete decoded object.
C12_MissingRequiredKeyGivesFallback ==
    ( /\ handler \in ParseHandlers
      /\ pc = "done"
      /\ IsOk(call.returned.status)
      /\ reply.kind = "Text"
      /\ JsonMatch(reply.content).found
      /\ JSONParse(JsonMatch(reply.content).text).ok
      /\ ~JSONParse(JsonMatch(reply.content).text).val.d )
    => /\ resp.body.kind = "fallback"
       /\ resp.body.value = FallbackFor(handler, req)

\* the content has no "{" that is followed by a "}"
NoBraceSubstring(s) ==
    ~\E i, j \in 1..Len(s) : i < j /\ s[i] = "{" /\ s[j] = "}"

\* the content is empty (or null), has no brace substring, or its brace
\* substring is not valid JSON
UnusableContent(rep) ==
    \/ rep.kind = "NullContent"
    \/ /\ rep.kind = "Text"
       /\ \/ rep.content = <<>>
          \/ NoBraceSubstring(rep.content)
          \/ ~JSONParse(JsonMatch(rep.content).text).ok

C13_WitnessEmpty ==
    /\ handler = "location-recommendations"
    /\ pc = "done"
    /\ reply.kind = "Text"
    /\ reply.content = <<>>
    /\ resp.body.kind = "fallback"

C13_WitnessNoBraces ==
    /\ handler = "comprehensive-itinerary"
    /\ pc = "done"
    /\ reply.kind = "Text"
    /\ reply.content = <<"}", "w", "{">>
    /\ resp.body.kind = "fallback"

(***************************************************************************)
(* Properties of the fallback builders.                                    *)
(***************************************************************************)
\* the keys of the JSON format each handler asks the provider for
RequiredKeys(h) ==
    CASE h = "location-recommendations" ->
            {"restaurants", "sightseeing", "transportation", "nightlife",
             "shopping", "tips"}
      [] h = "generate-itinerary" ->
            {"days", "totalEstimatedCost", "travelTips", "packingRecommendations"}
      [] OTHER ->
            {"destination", "overview", "bestTimeToVisit", "safetyRating",
             "safetyTips", "culturalTips", "hotels", "restaurants",
             "attractions", "transportation", "dailyItinerary", "costBreakdown",
             "packingList", "emergencyInfo"}

\* the keys of one entry of days / dailyItinerary in that format
RequiredDayKeys(h) ==
    IF h = "generate-itinerary"
    THEN {"day", "date", "destination", "activities"}
    ELSE {"day", "date", "theme", "morning", "lunch", "afternoon", "dinner",
          "evening"}

\* the entries of days / dailyItinerary of a payload
DayEntries(h, v) ==
    CASE h = "generate-itinerary" -> v.days
      [] h = "comprehensive-itinerary" -> v.dailyItinerary
      [] OTHER -> <<>>

\* every required key is present, at the top level and in every day entry,
\* and no day has an undefined destination (JSON.stringify drops the key)
HasRequiredKeys(h, v) ==
    /\ RequiredKeys(h) \subseteq DOMAIN v
    /\ \A n \in DOMAIN DayEntries(h, v) :
          /\ RequiredDayKeys(h) \subseteq DOMAIN DayEntries(h, v)[n]
          /\ h = "generate-itinerary" => DayEntries(h, v)[n].destination # "undefined"

\* C14: for every accepted request (duration 0, an empty destinations list
\* and every budget tier included) the fallback payload holds every required
\* key of the feature's shape with a defined value.
C14_FallbackHasRequiredKeys ==
    ( /\ handler \in ParseHandlers
      /\ pc = "done"
      /\ resp.body.kind = "fallback" )
    => HasRequiredKeys(handler, resp.body.value)

\* the provider could not be used: fetchWithRetry threw, or the Response it
\* returned is not ok (rate limited, server error, other non-2xx)
ProviderFailed ==
    \/ call.pc = "thrown"
    \/ call.pc = "returned" /\ ~IsOk(call.returned.status)

\* the provider answered ok but the handler could not parse a plan out of it
ReplyUnparsed ==
    /\ call.pc = "returned"
    /\ IsOk(call.returned.status)
    /\ resp.body.kind = "fallback"

\* C15: for comprehensive-itinerary seen from the client, the fallback plan
\* depends only on the request: a run that fails because the provider was
\* rate limited, returned a server error or was unreachable yields the same
\* content as a run with the same request whose reply could not be parsed
\* (which is the handler's createFallbackItinerary(request)).
C15_FallbackKeyedByRequestOnly ==
    ( /\ handler = "comprehensive-itinerary"
      /\ pc = "resolved"
      /\ (ProviderFailed \/ ReplyUnparsed) )
    => clientResult.value = createComprehensiveFallbackItinerary(req)

\* the body a handler degrades to: the canned message of a chat handler,
\* the fallback payload of the request otherwise
DegradedBody(h, r) ==
    IF h \in ChatHandlers THEN CannedBody(h) ELSE FallbackBody(h, r)

\* the reply of an ok Response cannot be used: the body is not JSON or has
\* no message (chat handlers), the content holds no parseable JSON (others)
UnparseableReply(h, rep) ==
    IF h \in ChatHandlers THEN rep.kind \in {"NotJson", "NoChoices"}
    ELSE UnusableContent(rep)

C16_WitnessChat404 ==
    /\ handler = "travel-chat"
    /\ pc = "done"
    /\ call.returned = [status |-> 404, at |-> 0]
    /\ resp.body.canned = CannedMessage("travel-chat")

DayParts == {"morning", "lunch", "afternoon", "dinner", "evening"}

\* plan has d daily entries numbered 1..d, each with the five parts of a
\* day, and a total that is d times the total of the one-day plan and the
\* sum of the four categories
DailyPlanMatchesDuration(plan, d, oneDay) ==
    /\ Len(plan.dailyItinerary) = d
    /\ \A n \in 1..d :
          /\ plan.dailyItinerary[n].day = n
          /\ DayParts \subseteq DOMAIN plan.dailyItinerary[n]
    /\ plan.costBreakdown.total.min = d * oneDay.costBreakdown.total.min
    /\ plan.costBreakdown.total.max = d * oneDay.costBreakdown.total.max
    /\ LET c == plan.costBreakdown IN
          /\ c.total.min = c.accommodation.min + c.food.min
                              + c.activities.min + c.transport.min
          /\ c.total.max = c.accommodation.max + c.food.max
                              + c.activities.max + c.transport.max

\* C17: for every duration d >= 0 the comprehensive fallback itinerary, the
\* handler's and the client's, has exactly d dailyItinerary entries numbered
\* 1..d, each with morning, lunch, afternoon, dinner and evening, and
\* total.min and total.max are d times the per-day minimum and maximum.
C17_FallbackDaysAndTotals ==
    handler = "comprehensive-itinerary" =>
        /\ (pc \in {"done", "resolved"} /\ resp.body.kind = "fallback") =>
              DailyPlanMatchesDuration(resp.body.value, req.duration,
                  createComprehensiveFallbackItinerary([req EXCEPT !.duration = 1]))
        /\ (pc = "resolved" /\ clientResult.source = "client-fallback") =>
              DailyPlanMatchesDuration(clientResult.value, req.duration,
                  ComprehensiveAIService_createFallbackItinerary(
                      [req EXCEPT !.duration = 1]))

C17_Witness ==
    /\ handler = "comprehensive-itinerary"
    /\ pc = "done"
    /\ resp.body.kind = "fallback"
    /\ req.budget = "luxury"
    /\ req.duration = MaxDuration
    /\ Len(resp.body.value.dailyItinerary) = MaxDuration
    /\ resp.body.value.dailyItinerary[MaxDuration].day = MaxDuration

C17_WitnessClient ==
    /\ handler = "comprehensive-itinerary"
    /\ pc = "resolved"
    /\ clientResult.source = "client-fallback"
    /\ req.duration = MaxDuration
    /\ clientResult.value.costBreakdown.total.max
         = MaxDuration * (200 + 100 + 80 + 60)

C17_WitnessZeroDays ==
    /\ handler = "comprehensive-itinerary"
    /\ pc = "done"
    /\ resp.body.kind = "fallback"
    /\ req.duration = 0
    /\ resp.body.value.dailyItinerary = <<>>

\* the entries of list are in descending order of popularity score
DescendingPopularity(list) ==
    \A i, j \in DOMAIN list :
        i < j => list[i].popularityScore >= list[j].popularityScore

\* list is made of the n most popular rows
TopOf(list, rows) ==
    /\ \A i \in DOMAIN list : list[i] \in rows
    /\ \A i, j \in DOMAIN list : i # j => list[i] # list[j]
    /\ \A r \in rows :
          (\A i \in DOMAIN list : list[i] # r) =>
              \A i \in DOMAIN list : r.popularityScore <= list[i].popularityScore

RequestedLimit == IF req.limit = NoLimit THEN 10 ELSE req.limit

\* C19: for a request whose query is empty or only whitespace the
\* suggestions are the N most popular rows of the table in descending
\* order of popularity score, N being the limit (10 when omitted) or the
\* size of the table if smaller, and on no path, the database-error path
\* included, are there more than limit suggestions.
C19_BlankQueryTopNWithinLimit ==
    ( /\ handler = "destination-suggestions"
      /\ pc = "done"
      /\ req.valid
      /\ ~NonBlank(req.query) )
    => /\ resp.status = 200
       /\ Len(resp.body.suggestions) <= RequestedLimit
       /\ resp.body.source = "catalog" =>
             /\ DescendingPopularity(resp.body.suggestions)
             /\ TopOf(resp.body.suggestions, table)
             /\ Len(resp.body.suggestions)
                  = Min({RequestedLimit, Cardinality(table)})

\* query occurs in the name, the country or a popularFor tag of dest,
\* whatever the case of the letters
StaticEntryMatches(dest, query) ==
    LET q == toLowerCase(query) IN
    \/ includes(toLowerCase(dest.name), q)
    \/ includes(toLowerCase(dest.country), q)
    \/ \E t \in DOMAIN dest.popularFor :
           includes(toLowerCase(dest.popularFor[t]), q)

\* C20: when the catalog query fails, by a database error or by an
\* exception anywhere in the handler, the response has status 200 and its
\* suggestions are the whole static list for an empty (or blank) query and,
\* for any other query q, exactly the static entries whose name, country or
\* popularFor tag contains q case-insensitively.
C20_CatalogFailureGivesStaticMatches ==
    ( /\ handler = "destination-suggestions"
      /\ pc = "done"
      /\ resp.body.source = "static" )
    => /\ resp.status = 200
       /\ IF NonBlank(req.query)
          THEN /\ \A i \in DOMAIN resp.body.suggestions :
                     StaticEntryMatches(resp.body.suggestions[i], req.query)
               /\ \A k \in DOMAIN fallbackDestinations :
                     StaticEntryMatches(fallbackDestinations[k], req.query) =>
                         \E i \in DOMAIN resp.body.suggestions :
                             resp.body.suggestions[i] = fallbackDestinations[k]
          ELSE resp.body.suggestions = fallbackDestinations

\* a run of the dispatch-then-resolve pipeline has begun: the handler has
\* entered fetchWithRetry
PipelineStarted == handler \in ParseHandlers /\ call # NoCall

PipelineEnded == pc \in {"done", "crashed", "resolved"}

\* C21: every run of the dispatch-then-resolve pipeline terminates, whatever
\* the transport does, in exactly one terminal state, Parsed or Fallback,
\* and once fetchWithRetry has delivered a Response no further fetch is
\* issued: a parse failure never triggers a retry.
C21_TerminatesParsedOrFallback ==
    /\ PipelineStarted ~> PipelineEnded
    /\ []((PipelineStarted /\ PipelineEnded) =>
            /\ pc # "crashed"
            /\ resp.status = 200
            /\ resp.body.kind \in {"parsed", "fallback"})
    /\ [][(PipelineStarted /\ call.pc = "returned") => call' = call]_vars

C21_Terminates == PipelineStarted ~> PipelineEnded

C21_NoFetchAfterResponse ==
    [][(PipelineStarted /\ call.pc = "returned") => call' = call]_vars

\* fetchWithRetry run alone on the transport results rs, up to the end of
\* the iteration of the last of them
RECURSIVE Replay(_, _)
Replay(c, rs) ==
    IF rs = <<>> THEN c
    ELSE Replay(CallIteration(IF c.pc = "delay" THEN CallResume(c) ELSE c,
                              Head(rs)),
                Tail(rs))

\* C22: calls of fetchWithRetry that run side by side do not interact.
\* Under every interleaving, the attempt counter, the delays, lastError and
\* the outcome of each call are those of the call run alone on the
\* transport results of its own attempts, and a call that waits out a
\* backoff delay never keeps another call from its next step.
C22_ConcurrentCallsIndependent ==
    \A i \in CallIds :
        LET alone == Replay(CallEnter(calls[i].maxRetries), calls[i].results) IN
        /\ \/ calls[i] = alone
           \/ alone.pc = "delay" /\ calls[i] = CallResume(alone)
        /\ calls[i].pc = "fetch" => ENABLED ConcurrentAttemptOf(i)
        /\ calls[i].pc = "delay" => ENABLED ConcurrentBackoffElapsedOf(i)

C22_Witness ==
    /\ calls[1].maxRetries = 1
    /\ calls[1].pc = "delay"
    /\ calls[1].lastError.msg = "ECONNRESET"
    /\ calls[2].maxRetries = 1
    /\ calls[2].pc = "thrown"
    /\ calls[2].thrown = [msg |-> "ETIMEDOUT", at |-> 1]
    /\ calls[2].results[1].status = 429

\* C23: when the caller cancels a run while a provider fetch is in flight
\* or a backoff delay is pending, no further attempt is started (the
\* remaining delays are not waited out) and the run ends with a Fallback
\* result.
C23_CancelStopsRun ==
    /\ [][cancelled => ~(call.pc = "delay" /\ call'.pc = "fetch")]_vars
    /\ []((cancelled /\ PipelineStarted /\ PipelineEnded) =>
            /\ pc # "crashed"
            /\ resp.body.kind = "fallback")

C23_NoAttemptAfterCancel ==
    [][cancelled => ~(call.pc = "delay" /\ call'.pc = "fetch")]_vars

C24_WitnessNetwork ==
    /\ clientCall.pc = "settled"
    /\ clientCall.method = "ComprehensiveAIService.chatWithTravelExpert"
    /\ clientCall.outcome.net
    /\ clientResult.source = "fallback"

\* the queries searchDestinations was called with by debounce timers
TimerSearches ==
    SelectSeq(autocomplete.issued, LAMBDA e : e.by = "timer")

\* the input changed more than once and all changes fell within 300 ms
BurstOfChanges ==
    /\ Len(autocomplete.changes) > 1
    /\ autocomplete.changes[Len(autocomplete.changes)]
         - autocomplete.changes[1] < DebounceTicks

\* C25: typing into the destination autocomplete is debounced. When the
\* input changes k > 1 times within 300 ms, once the timers have run out
\* only one search has been issued, for the last value: the earlier
\* pending searches were cancelled.
C25_DebouncedSingleSearch ==
    ( /\ BurstOfChanges
      /\ autocomplete.timers = {}
      /\ ~autocomplete.edited )
    => TimerSearches = <<[query |-> autocomplete.value, by |-> "timer"]>>

\* C26: once every outstanding search has resolved, the suggestions shown
\* are the results for the value typed last, in whatever order the
\* searches complete.
C26_LatestQueryWins ==
    ( /\ autocomplete.mounted
      /\ autocomplete.changes # <<>>
      /\ autocomplete.timers = {}
      /\ autocomplete.searches = {}
      /\ ~autocomplete.edited )
    => autocomplete.suggestions = SearchResults(autocomplete.value)

\* the place of a destination in the request's list (the lists hold no
\* destination twice)
PlaceOf(name) ==
    CHOOSE k \in 1..Len(req.destinations) : req.destinations[k] = name

\* every destination of the request has a day, and the days go through the
\* list in order and stay within it
DaysCoverDestinations(days) ==
    /\ \A k \in 1..Len(req.destinations) :
          \E n \in DOMAIN days : days[n].destination = req.destinations[k]
    /\ \A n \in DOMAIN days :
          \E k \in 1..Len(req.destinations) :
              days[n].destination = req.destinations[k]
    /\ \A n, m \in DOMAIN days :
          n < m => PlaceOf(days[n].destination) <= PlaceOf(days[m].destination)

\* C27: in the multi-destination fallback itinerary, whenever duration >=
\* destinations.length >= 1, every destination of the list is assigned to at
\* least one day, and the destinations of the days follow the order of the
\* list without going back and without leaving the list.
C27_EveryDestinationGetsADay ==
    ( /\ handler = "generate-itinerary"
      /\ Len(req.destinations) >= 1
      /\ req.duration >= Len(req.destinations) )
    => /\ resp # NoResp => DaysCoverDestinations(resp.body.value.days)
       /\ clientResult # NoResult => DaysCoverDestinations(clientResult.value.days)

\* the order and range part of C27 alone
C27_OrderAndRange ==
    ( /\ handler = "generate-itinerary"
      /\ Len(req.destinations) >= 1
      /\ req.duration >= Len(req.destinations)
      /\ resp # NoResp )
    => LET days == resp.body.value.days IN
       /\ \A n \in DOMAIN days :
             \E k \in 1..Len(req.destinations) :
                 days[n].destination = req.destinations[k]
       /\ \A n, m \in DOMAIN days :
             n < m => PlaceOf(days[n].destination) <= PlaceOf(days[m].destination)

CostCategories == {"accommodation", "food", "activities", "transport"}

\* total is the sum of the four categories, bound by bound, and no range
\* has its minimum above its maximum
RangesConsistent(c) ==
    /\ c.total.min = c.accommodation.min + c.food.min + c.activities.min
                       + c.transport.min
    /\ c.total.max = c.accommodation.max + c.food.max + c.activities.max
                       + c.transport.max
    /\ \A k \in CostCategories \cup {"total"} : c[k].min <= c[k].max

\* C28: in every comprehensive fallback itinerary, for every duration,
\* costBreakdown.total is the sum of the four category ranges (minimum
\* with minimum, maximum with maximum) and min <= max in every range.
C28_TotalIsSumAndRangesOrdered ==
    handler = "comprehensive-itinerary" =>
        /\ resp # NoResp => RangesConsistent(resp.body.value.costBreakdown)
        /\ clientResult # NoResult =>
              RangesConsistent(clientResult.value.costBreakdown)

\* C28 for durations that are not negative
C28_FromZeroDays ==
    req.duration >= 0 => C28_TotalIsSumAndRangesOrdered

\* C29: after clearChat the message list is the initial assistant greeting
\* alone and stays so until the user sends a new message, also when
\* clearChat runs while the reply to an earlier message is in flight: a
\* late reply is not appended to the cleared conversation.
C29_ClearedChatStaysCleared ==
    chatbot.cleared => chatbot.messages = <<Greeting>>

\* C29 when no reply is awaited at the time of clearChat
C29_ClearedWhileIdle ==
    [][(/\ chatbot.pending = {}
        /\ chatbot.cleared
        /\ chatbot.messages = <<Greeting>>
        /\ chatbot'.sends = chatbot.sends)
          => chatbot'.messages = <<Greeting>>]_vars

\* C30: when a trip with n >= 1 non-blank destinations is created, the
\* stays partition the trip dates in list order: the first arrival date is
\* the trip's start date, each departure date is the next arrival date, the
\* last departure date is the trip's end date, and every arrival date is on
\* or before its departure date, also with fewer days than destinations.
StaysPartition(saved) ==
    LET stays == saved.destinations
        n == Len(stays)
    IN  /\ stays[1].arrival_date = saved.trip.start_date
        /\ \A i \in 1 .. n - 1 :
              stays[i].departure_date = stays[i + 1].arrival_date
        /\ stays[n].departure_date = saved.trip.end_date
        /\ \A i \in 1 .. n : stays[i].arrival_date <= stays[i].departure_date

C30_StaysPartitionTripDates ==
    (tripModal.mounted /\ tripModal.saved.kind = "trip"
        /\ Len(tripModal.saved.destinations) >= 1)
       => StaysPartition(tripModal.saved)

\* C30 where the browser is not west of UTC and the trip does not end before
\* it starts
C30_PartitionEastOfUTC ==
    (tripModal.mounted /\ tripModal.saved.kind = "trip"
        /\ Len(tripModal.saved.destinations) >= 1
        /\ tripModal.tz >= 0
        /\ tripModal.saved.trip.start_date <= tripModal.saved.trip.end_date)
       => StaysPartition(tripModal.saved)

\* C30 when only the order of the trip dates is assumed, in any time zone
C30_PartitionOrderedDates ==
    (tripModal.mounted /\ tripModal.saved.kind = "trip"
        /\ Len(tripModal.saved.destinations) >= 1
        /\ tripModal.saved.trip.start_date <= tripModal.saved.trip.end_date)
       => StaysPartition(tripModal.saved)

====
